---- MODULE Spec2Model ----
(***************************************************************************)
(* A model of the redox-fatfs driver core: the FAT table and the cluster   *)
(* allocator (table.rs), block I/O (filesystem.rs), the directory-entry    *)
(* codec, directory operations and file operations (dir_entry.rs).         *)
(*                                                                         *)
(* Units.  Every disk offset, length and file size of the model is counted *)
(* in cells of DIR_ENTRY_LEN bytes (one 32-byte directory slot), so        *)
(* DIR_ENTRY_LEN is 1 here, and a cell of the disk is either a directory   *)
(* record or one 32-byte piece of file data.  The FAT and the FSInfo       *)
(* sector are kept as decoded values next to the cells of the data region. *)
(***************************************************************************)
EXTENDS Integers, Sequences, FiniteSets, TLC

VARIABLES
    fat,        \* FAT of the volume: cluster number -> low 28 bits of its entry
    disk,       \* the cells of the volume, by absolute cell offset
    fs_info,    \* FileSystem.fs_info: the in-memory FsInfo
    info_disk,  \* the FSInfo sector as stored on the disk
    files,      \* the File objects the client holds: handle -> File or None
    last,       \* the last operation: its arguments, result and pre-state facts
    nops,       \* number of operations issued so far
    bpb,        \* the BPB fields the table code reads
    fat_region, \* the bytes of the FAT region, where a specification keeps
                \* the table encoded (empty where fat holds it decoded)
    server      \* the mount server: its position in the loop of mount(),
                \* IS_UMT, the scheme socket and the packet in hand

vars ==
    <<fat, disk, fs_info, info_disk, files, last, nops, bpb, fat_region,
      server>>

\* the mount server of a specification that calls the library directly
ServerOff == [pc |-> "off"]

(***************************************************************************)
(* Bounds of the model.                                                    *)
(***************************************************************************)
MaxCluster == 9        \* FileSystem::max_cluster_number of the modelled volume
MaxOps == 4            \* operations issued in one behaviour
MaxFiles == 2          \* File objects held by the client at once
SlackBlocks == 1       \* blocks of the device behind the last cluster

(***************************************************************************)
(* Geometry and program constants.                                         *)
(***************************************************************************)
DIR_ENTRY_LEN == 1
LFN_PART_LEN == 13
MAX_FILE_SIZE == 134217727      \* 0xffffffff bytes, in cells
RESERVED_CLUSTERS == 2
BLOCK_SIZE == 4                 \* cells of one I/O block
bytes_per_cluster == 4          \* cells of one cluster
first_data_offset == 4          \* first_data_sec * bytes_per_sec, in cells
root_cluster == 2
partition_offset == 0
FAT_EOC == 268435455            \* 0x0FFFFFFF
FAT_EOC_MIN == 268435448        \* 0x0FFFFFF8
FAT_BAD == 268435447            \* 0x0FFFFFF7
\* A u32 field of FsInfo is kept as the i32 reading of its 32 bits, so
\* 0xFFFFFFFF is -1 and the values from 0x80000000 up are negative.
I32_MAX == 2147483647
U32_UNKNOWN == -1               \* 0xFFFFFFFF
WrapAdd(x, delta) ==
    IF delta > 0 /\ x > I32_MAX - delta THEN (x - I32_MAX) + delta + (-I32_MAX) - 2
    ELSE IF delta < 0 /\ x < (-I32_MAX) - 1 - delta
    THEN (x + I32_MAX) + delta + I32_MAX + 2
    ELSE x + delta

None == [k |-> "none"]
Min(a, b) == IF a < b THEN a ELSE b

Clusters == RESERVED_CLUSTERS..MaxCluster
\* cells of the device: the reserved area, the data region and the slack
DiskEnd ==
    LET dataEnd == first_data_offset + (MaxCluster - 1) * bytes_per_cluster
    IN  ((dataEnd + BLOCK_SIZE - 1) \div BLOCK_SIZE) * BLOCK_SIZE
            + SlackBlocks * BLOCK_SIZE

(***************************************************************************)
(* Cells.                                                                  *)
(***************************************************************************)
ZeroCell == [k |-> "zero"]
MetaCell == [k |-> "meta"]                 \* a cell of the reserved area
DataCell(v) == [k |-> "data", v |-> v]     \* 32 bytes of file data, each v
Seq11(f) == [i \in 1..11 |-> f]

\* FileAttributes
RD_ONLY == 1
HIDDEN == 2
SYSTEM == 4
VOLUME_ID == 8
DIRECTORY == 16
ARCHIVE == 32
LFN == 15
HasBits(x, bits) ==
    \A b \in {1, 2, 4, 8, 16, 32} :
        ((bits \div b) % 2 = 1) => ((x \div b) % 2 = 1)

\* ShortDirEntry::default()
ShortDirEntryDefault ==
    [k |-> "sfn", dir_name |-> Seq11(0), file_attrs |-> 0, fc |-> 0,
     file_size |-> 0]

(***************************************************************************)
(* table.rs: the FAT.                                                      *)
(***************************************************************************)
Unused == [t |-> "Unused", c |-> 0]
Bad == [t |-> "Bad", c |-> 0]
EndOfChain == [t |-> "EndOfChain", c |-> 0]
NextC(c) == [t |-> "Next", c |-> c]

RawFat(fs, c) == IF c \in DOMAIN fs.fat THEN fs.fat[c] ELSE 0

\* a decoder without the end-of-chain range
get_entry_no_eoc(fs, cluster) ==
    IF RawFat(fs, cluster) = 0 THEN Unused
    ELSE IF RawFat(fs, cluster) = FAT_BAD THEN Bad
    ELSE NextC(RawFat(fs, cluster))

get_entry(fs, cluster) ==
    LET entry == RawFat(fs, cluster)
    IN  IF cluster >= FAT_BAD /\ cluster <= FAT_EOC THEN Bad
        ELSE IF entry = 0 THEN Unused
        ELSE IF entry = FAT_BAD THEN Bad
        ELSE IF entry >= FAT_EOC_MIN THEN EndOfChain
        ELSE NextC(entry)

set_entry(fs, cluster, fat_entry) ==
    LET raw_val == CASE fat_entry.t = "Unused" -> 0
                     [] fat_entry.t = "Bad" -> FAT_BAD
                     [] fat_entry.t = "EndOfChain" -> FAT_EOC
                     [] OTHER -> fat_entry.c
    IN  IF cluster \in DOMAIN fs.fat
        THEN [fs EXCEPT !.fat[cluster] = raw_val]
        ELSE fs

RECURSIVE get_free_cluster(_, _, _)
get_free_cluster(fs, cluster, end_cluster) ==
    IF cluster < end_cluster /\ cluster < MaxCluster
    THEN IF RawFat(fs, cluster) = 0
         THEN [st |-> "ok", v |-> cluster]
         ELSE get_free_cluster(fs, cluster + 1, end_cluster)
    ELSE [st |-> "err", v |-> 0]

RECURSIVE CountFree(_, _, _)
CountFree(fs, cluster, end_cluster) ==
    IF cluster <= end_cluster
    THEN (IF RawFat(fs, cluster) = 0 THEN 1 ELSE 0)
            + CountFree(fs, cluster + 1, end_cluster)
    ELSE 0

get_free_count(fs, end_cluster) == CountFree(fs, RESERVED_CLUSTERS, end_cluster)

(***************************************************************************)
(* filesystem.rs: FsInfo.                                                  *)
(***************************************************************************)
get_next_free(info) ==
    IF info.next_free = U32_UNKNOWN \/ info.next_free \in {0, 1}
    THEN None
    ELSE [k |-> "some", v |-> info.next_free]

delta_free_count_kept(info, delta) == info

delta_free_count(info, delta) ==
    [info EXCEPT !.free_count = WrapAdd(info.free_count, delta)]

update_next_free(info, next_free) ==
    [info EXCEPT !.next_free = next_free]

(***************************************************************************)
(* filesystem.rs: block I/O.                                               *)
(***************************************************************************)
cluster_offset(cluster) ==
    IF cluster >= 2
    THEN first_data_offset + (cluster - 2) * bytes_per_cluster
    ELSE 0

get_block_offset(offset) == (partition_offset + offset) % BLOCK_SIZE
BlockStart(offset) ==
    ((partition_offset + offset) \div BLOCK_SIZE) * BLOCK_SIZE
\* get_block_buffer: the cells of the buffer
BlockBufferLen(byte_offset, read_size) ==
    (((byte_offset % BLOCK_SIZE) + read_size + BLOCK_SIZE - 1) \div BLOCK_SIZE)
        * BLOCK_SIZE

\* The loop of write_to.  blk_offset and the buffer length are fixed before
\* the loop; each pass reads the buffer at the block of offset, patches it at
\* blk_offset, advances offset and writes the buffer at the block of offset.
RECURSIVE write_to_loop(_, _, _, _, _, _)
write_to_loop(fs, offset, buf, start, i, blk_offset) ==
    LET num_blocks == (Len(buf) + BLOCK_SIZE - 1) \div BLOCK_SIZE
        blen == BlockBufferLen(blk_offset, BLOCK_SIZE)
        base == BlockStart(offset)
        write_len == Min(BLOCK_SIZE - blk_offset, Len(buf) - start)
        cursor == [j \in 0..(blen - 1) |->
                      IF j >= blk_offset /\ j < blk_offset + write_len
                      THEN buf[start + (j - blk_offset) + 1]
                      ELSE fs.disk[base + j]]
        base2 == BlockStart(offset + write_len)
        disk2 == [a \in DOMAIN fs.disk |->
                      IF a >= base2 /\ a < base2 + blen
                      THEN cursor[a - base2]
                      ELSE fs.disk[a]]
    IN  IF i >= num_blocks THEN [st |-> "ok", fs |-> fs, v |-> start]
        ELSE IF base + blen > DiskEnd          \* read_exact fails
        THEN [st |-> "err", fs |-> fs, v |-> 0]
        ELSE write_to_loop([fs EXCEPT !.disk = disk2], offset + write_len,
                           buf, start + write_len, i + 1, blk_offset)

write_to(fs, offset, buf) ==
    write_to_loop(fs, offset, buf, 0, 0, get_block_offset(offset))

RECURSIVE read_at_loop(_, _, _, _, _, _)
read_at_loop(fs, offset, len, out, i, blk_offset) ==
    LET num_blocks == (len + BLOCK_SIZE - 1) \div BLOCK_SIZE
        blen == BlockBufferLen(blk_offset, BLOCK_SIZE)
        base == BlockStart(offset)
        read_len == Min(BLOCK_SIZE - blk_offset, len - Len(out))
        got == [j \in 1..read_len |-> fs.disk[base + blk_offset + j - 1]]
    IN  IF i >= num_blocks THEN [st |-> "ok", v |-> out]
        ELSE IF base + blen > DiskEnd          \* read_exact fails
        THEN [st |-> "err", v |-> out]
        ELSE read_at_loop(fs, offset + read_len, len, out \o got, i + 1,
                          blk_offset)

\* read_at returns the cells read; their number is the count it reports
read_at(fs, offset, len) ==
    read_at_loop(fs, offset, len, <<>>, 0, get_block_offset(offset))

zero_cluster(fs, cluster) ==
    LET r == write_to(fs, cluster_offset(cluster),
                      [j \in 1..bytes_per_cluster |-> ZeroCell])
    IN  [st |-> r.st, fs |-> r.fs]

(***************************************************************************)
(* filesystem.rs: cluster chains.  ClusterIter yields its current cluster  *)
(* and moves on only through a Next entry.  A walk that does not end       *)
(* within ChainFuel steps is in a cycle: collecting it never returns.      *)
(***************************************************************************)
ChainFuel == MaxCluster + 2

RECURSIVE ClusterWalk(_, _, _)
ClusterWalk(fs, c, fuel) ==
    IF fuel = 0 THEN <<>>
    ELSE LET e == get_entry(fs, c)
         IN  IF e.t = "Next"
             THEN <<c>> \o ClusterWalk(fs, e.c, fuel - 1)
             ELSE <<c>>

Cyclic(fs, start_cluster) ==
    Len(ClusterWalk(fs, start_cluster, ChainFuel)) = ChainFuel

clusters(fs, start_cluster) == ClusterWalk(fs, start_cluster, ChainFuel)

get_last_cluster_of(w) == w[Len(w)]

\* the chain of an entry: no cluster when its first cluster is below 2
ChainOf(fs, first_cluster) ==
    IF first_cluster >= 2 THEN clusters(fs, first_cluster) ELSE <<>>

\* the walk from start_cluster is finite and stops at an EndOfChain entry
WellFormedChain(fs, start_cluster) ==
    /\ ~Cyclic(fs, start_cluster)
    /\ get_entry(fs, get_last_cluster_of(clusters(fs, start_cluster))).t
           = "EndOfChain"

num_clusters_chain(fs, start_cluster) == Len(clusters(fs, start_cluster))

RECURSIVE get_cluster_relative(_, _, _)
get_cluster_relative(fs, start_cluster, n) ==
    IF n = 0 THEN [k |-> "some", v |-> start_cluster]
    ELSE LET e == get_entry(fs, start_cluster)
         IN  IF e.t = "Next"
             THEN get_cluster_relative(fs, e.c, n - 1)
             ELSE None

get_last_cluster(fs, start_cluster) ==
    LET w == clusters(fs, start_cluster)
    IN  [k |-> "some", v |-> w[Len(w)]]

(***************************************************************************)
(* table.rs: the allocator.  Results are records [st, fs, v]: st is "ok",  *)
(* "err" (an Err is returned), "panic" or "hang"; fs is the file system as *)
(* the call leaves it.                                                     *)
(***************************************************************************)
Ok(fs, v) == [st |-> "ok", fs |-> fs, v |-> v]
Err(fs, e) == [st |-> "err", fs |-> fs, v |-> e]
Fail(st, fs) == [st |-> st, fs |-> fs, v |-> "stopped"]

\* the cluster the search for a free cluster starts at: None and the hints
\* from 0x80000000 up are not below end_cluster
allocate_start(fs) ==
    LET nf == get_next_free(fs.fs_info)
    IN  IF nf.k = "some" /\ nf.v >= 0 /\ nf.v < MaxCluster
        THEN nf.v
        ELSE RESERVED_CLUSTERS

\* the search: from start_cluster to the end, then from the first cluster
allocate_search(fs, start_cluster, r1) ==
    IF r1.st = "err" /\ start_cluster > RESERVED_CLUSTERS
    THEN get_free_cluster(fs, RESERVED_CLUSTERS, MaxCluster)
    ELSE r1

\* the FAT and FsInfo updates for the cluster found
allocate_mark(fs, prev_cluster, free_cluster) ==
    LET fs1 == set_entry(fs, free_cluster, EndOfChain)
        info == update_next_free(delta_free_count(fs.fs_info, -1),
                                 free_cluster + 1)
    IN  IF prev_cluster.k = "some"
        THEN set_entry([fs1 EXCEPT !.fs_info = info], prev_cluster.v,
                       NextC(free_cluster))
        ELSE [fs1 EXCEPT !.fs_info = info]

allocate_zeroed(z, free_cluster) ==
    IF z.st # "ok" THEN Err(z.fs, "io") ELSE Ok(z.fs, free_cluster)

allocate_found(fs, prev_cluster, r2) ==
    IF r2.st = "err" THEN Err(fs, "Space Exhausted on Disk")
    ELSE allocate_zeroed(zero_cluster(allocate_mark(fs, prev_cluster, r2.v),
                                      r2.v),
                         r2.v)

allocate_from(fs, prev_cluster, start_cluster) ==
    allocate_found(fs, prev_cluster,
                   allocate_search(fs, start_cluster,
                                   get_free_cluster(fs, start_cluster,
                                                    MaxCluster)))

allocate_cluster(fs, prev_cluster) ==
    allocate_from(fs, prev_cluster, allocate_start(fs))

deallocate_cluster(fs, cluster) ==
    IF get_entry(fs, cluster) # Bad
    THEN Ok([fs EXCEPT !.fat = set_entry(fs, cluster, Unused).fat,
                       !.fs_info = delta_free_count(fs.fs_info, 1)], 0)
    ELSE Err(fs, "Bad clusters cannot be freed")

RECURSIVE deallocate_each(_, _, _)
RECURSIVE deallocate_rest(_, _, _)
deallocate_each(fs, cs, i) ==
    IF i > Len(cs) THEN Ok(fs, 0)
    ELSE deallocate_rest(deallocate_cluster(fs, cs[i]), cs, i)
deallocate_rest(r, cs, i) ==
    IF r.st # "ok" THEN r ELSE deallocate_each(r.fs, cs, i + 1)

deallocate_cluster_chain(fs, cluster) ==
    IF Cyclic(fs, cluster) THEN Fail("hang", fs)
    ELSE deallocate_each(fs, clusters(fs, cluster), 1)

(***************************************************************************)
(* dir_entry.rs: names.  A name is a sequence of character codes.          *)
(***************************************************************************)
SPACE == 32
DOT == 46
TILDE == 126
UNDERSCORE == 95
PADDING == 32

IsLower(c) == c >= 97 /\ c <= 122
IsUpperCase(c) == c >= 65 /\ c <= 90
IsDigit(c) == c >= 48 /\ c <= 57
to_uppercase(c) == IF IsLower(c) THEN c - 32 ELSE c
UpperName(name) == [i \in 1..Len(name) |-> to_uppercase(name[i])]

\* str::trim
RECURSIVE TrimLeft(_)
TrimLeft(name) ==
    IF Len(name) > 0 /\ name[1] = SPACE THEN TrimLeft(Tail(name)) ELSE name
RECURSIVE TrimRight(_)
TrimRight(name) ==
    IF Len(name) > 0 /\ name[Len(name)] = SPACE
    THEN TrimRight(SubSeq(name, 1, Len(name) - 1))
    ELSE name
Trim(name) == TrimRight(TrimLeft(name))

\* str::rfind('.') over name[1..i]: the 1-based position of the last dot, 0
\* when absent
RFindDot(name, i) ==
    LET dots == {j \in 1..i : name[j] = DOT}
    IN  IF dots = {} THEN 0
        ELSE CHOOSE j \in dots : \A k \in dots : k <= j

\* the characters copy_part keeps as they are
ShortNameChar(c) ==
    \/ IsLower(c) \/ IsUpperCase(c) \/ IsDigit(c)
    \/ c \in {36, 37, 39, 45, 95, 64, 126, 96, 33, 40, 41, 123, 125, 94, 35, 38}

\* one turn of the for loop of copy_part; done is the early return
copy_part_char(s, c) ==
    IF s.done THEN s
    ELSE IF s.len = Len(s.dest) THEN [s EXCEPT !.fits = FALSE, !.done = TRUE]
    ELSE IF c = SPACE \/ c = DOT THEN [s EXCEPT !.lossy = TRUE]
    ELSE [s EXCEPT !.dest[s.len + 1] = to_uppercase(c) % 256,
                   !.lossy = s.lossy
                                \/ c # (IF ShortNameChar(c) THEN c
                                        ELSE UNDERSCORE)]

\* the turns for src[lo..hi], in order; the turns of the second half start
\* from the state the first half has returned
RECURSIVE copy_part_loop(_, _, _, _)
RECURSIVE copy_part_rest(_, _, _, _)
copy_part_loop(s, src, lo, hi) ==
    IF lo > hi THEN s
    ELSE IF lo = hi THEN copy_part_char(s, src[lo])
    ELSE copy_part_rest(copy_part_loop(s, src, lo, (lo + hi) \div 2),
                        src, (lo + hi) \div 2 + 1, hi)
copy_part_rest(s, src, lo, hi) ==
    IF s.done THEN s ELSE copy_part_loop(s, src, lo, hi)

copy_part(dest, src) ==
    copy_part_loop([dest |-> dest, len |-> 0, fits |-> TRUE,
                    lossy |-> FALSE, done |-> FALSE], src, 1, Len(src))

ShortNameGen_of(is_dot, is_dotdot, b, e) ==
    [name |-> b.dest \o e.dest,
     is_lossy |-> b.lossy \/ e.lossy,
     is_dot |-> is_dot,
     is_dotdot |-> is_dotdot,
     basename_len |-> b.len,
     name_fits |-> b.fits /\ e.fits,
     checksum_bitmask |-> {},
     checksum |-> 0,
     suffix_bitmask |-> {},
     exact_match |-> FALSE]

ShortNameGen_split(name, is_dot, is_dotdot, idx) ==
    LET base0 == [i \in 1..8 |->
                    IF (i = 1 /\ (is_dot \/ is_dotdot)) \/ (i = 2 /\ is_dotdot)
                    THEN DOT ELSE PADDING]
        ext0 == [i \in 1..3 |-> PADDING]
    IN  ShortNameGen_of(
            is_dot, is_dotdot,
            copy_part(base0, IF idx > 0 THEN SubSeq(name, 1, idx - 1) ELSE name),
            IF idx > 0 THEN copy_part(ext0, SubSeq(name, idx + 1, Len(name)))
            ELSE [dest |-> ext0, len |-> 0, fits |-> TRUE, lossy |-> FALSE])

ShortNameGen_trimmed(name) ==
    ShortNameGen_split(name, name = <<DOT>>, name = <<DOT, DOT>>,
                       RFindDot(name, Len(name)))

ShortNameGen_new(name0) == ShortNameGen_trimmed(Trim(name0))

\* char::to_digit(10)
to_digit(c) == IF IsDigit(c) THEN [k |-> "some", v |-> c - 48] ELSE None

HexVal(c) ==
    IF IsDigit(c) THEN c - 48
    ELSE IF c >= 65 /\ c <= 70 THEN c - 55
    ELSE IF c >= 97 /\ c <= 102 THEN c - 87
    ELSE -1

\* u16::from_str_radix(s, 16) of four characters; -1 when it is an Err
from_str_radix4(s) ==
    LET d == [i \in 1..4 |-> HexVal(s[i])]
    IN  IF s[1] = 43 /\ \A i \in 2..4 : d[i] >= 0
        THEN d[2] * 256 + d[3] * 16 + d[4]
        ELSE IF \A i \in 1..4 : d[i] >= 0
        THEN d[1] * 4096 + d[2] * 256 + d[3] * 16 + d[4]
        ELSE -1

\* a generator that ignores the siblings it is shown
add_name_skip(sng, name) == sng

add_name(sng, name) ==
    LET exact == sng.exact_match \/ name = sng.name
        prefix_len == Min(sng.basename_len, 6)
        num_suffix == IF name[prefix_len + 1] = TILDE
                      THEN to_digit(name[prefix_len + 2]) ELSE None
        ext_matches == SubSeq(name, 9, 11) = SubSeq(sng.name, 9, 11)
        suffix == IF /\ SubSeq(name, 1, prefix_len)
                          = SubSeq(sng.name, 1, prefix_len)
                     /\ num_suffix.k = "some" /\ ext_matches
                  THEN sng.suffix_bitmask \cup {num_suffix.v}
                  ELSE sng.suffix_bitmask
        prefix_len2 == Min(sng.basename_len, 2)
        num_suffix2 == IF name[prefix_len2 + 5] = TILDE
                       THEN to_digit(name[prefix_len2 + 6]) ELSE None
        chk == IF /\ SubSeq(name, 1, prefix_len2)
                       = SubSeq(sng.name, 1, prefix_len2)
                  /\ num_suffix2.k = "some" /\ ext_matches
                  /\ from_str_radix4(SubSeq(name, prefix_len2 + 1,
                                            prefix_len2 + 4)) = sng.checksum
               THEN sng.checksum_bitmask \cup {num_suffix2.v}
               ELSE sng.checksum_bitmask
    IN  [sng EXCEPT !.exact_match = exact, !.suffix_bitmask = suffix,
                    !.checksum_bitmask = chk]

HexDigit(d) == IF d < 10 THEN 48 + d ELSE 55 + d
u16_to_u8_array(x) ==
    <<HexDigit((x \div 4096) % 16), HexDigit((x \div 256) % 16),
      HexDigit((x \div 16) % 16), HexDigit(x % 16)>>

build_prefixed_name(sng, num, with_chksum) ==
    LET p == IF with_chksum THEN Min(sng.basename_len, 2)
             ELSE Min(sng.basename_len, 6)
        mid == IF with_chksum THEN u16_to_u8_array(sng.checksum) ELSE <<>>
        prefix_len == p + Len(mid)
    IN  [i \in 1..11 |->
            IF i > 8 THEN sng.name[i]
            ELSE IF i <= p THEN sng.name[i]
            ELSE IF i <= prefix_len THEN mid[i - p]
            ELSE IF i = prefix_len + 1 THEN TILDE
            ELSE IF i = prefix_len + 2 THEN 48 + num
            ELSE PADDING]

\* ShortNameGen::generate: [st, v]
generate(sng) ==
    IF sng.is_dot \/ sng.is_dotdot THEN [st |-> "ok", v |-> sng.name]
    ELSE IF ~sng.is_lossy /\ sng.name_fits /\ ~sng.exact_match
    THEN [st |-> "ok", v |-> sng.name]
    ELSE IF \E i \in 1..4 : i \notin sng.suffix_bitmask
    THEN LET i == CHOOSE j \in 1..4 :
                    /\ j \notin sng.suffix_bitmask
                    /\ \A l \in 1..(j - 1) : l \in sng.suffix_bitmask
         IN  [st |-> "ok", v |-> build_prefixed_name(sng, i, FALSE)]
    ELSE IF \E i \in 1..9 : i \notin sng.checksum_bitmask
    THEN LET i == CHOOSE j \in 1..9 :
                    /\ j \notin sng.checksum_bitmask
                    /\ \A l \in 1..(j - 1) : l \in sng.checksum_bitmask
         IN  [st |-> "ok", v |-> build_prefixed_name(sng, i, TRUE)]
    ELSE [st |-> "err", v |-> "short name already exists"]

next_iteration(sng) ==
    [sng EXCEPT !.checksum = (sng.checksum + 1) % 65536,
                !.suffix_bitmask = {}, !.checksum_bitmask = {}]

\* ShortDirEntry::compute_checksum, over the 11 bytes of dir_name
RECURSIVE checksum_loop(_, _, _)
checksum_loop(dir_name, i, sum) ==
    IF i > Len(dir_name) THEN sum
    ELSE checksum_loop(dir_name, i + 1,
                       (((sum * 128) % 256) + (sum \div 2) + dir_name[i]) % 256)

compute_checksum(short_entry) == checksum_loop(short_entry.dir_name, 1, 0)

char_decode(c) == IF c <= 127 THEN c ELSE 65533

\* ShortDirEntry::name_to_string
RECURSIVE RPosition(_, _)
RPosition(part, i) ==
    IF i = 0 THEN 0
    ELSE IF part[i] # PADDING THEN i
    ELSE RPosition(part, i - 1)

name_to_string(short_entry) ==
    LET sname_len == RPosition(SubSeq(short_entry.dir_name, 1, 8), 8)
        ext_len == RPosition(SubSeq(short_entry.dir_name, 9, 11), 3)
        name == SubSeq(short_entry.dir_name, 1, sname_len)
                    \o (IF ext_len > 0
                        THEN <<DOT>> \o SubSeq(short_entry.dir_name, 9,
                                              8 + ext_len)
                        ELSE <<>>)
    IN  [i \in 1..Len(name) |->
            char_decode(IF i = 1 /\ name[i] = 5 THEN 229 ELSE name[i])]

(***************************************************************************)
(* dir_entry.rs: directory records.  The volume is FAT32: the root is an   *)
(* ordinary cluster chain, Dir.root_offset is None and is_root() is false  *)
(* for every directory iterator.                                           *)
(***************************************************************************)
Some(v) == [k |-> "some", v |-> v]

is_dir(short_entry) ==
    HasBits(short_entry.file_attrs, DIRECTORY)
        /\ ~HasBits(short_entry.file_attrs, VOLUME_ID)
is_file(short_entry) ==
    ~HasBits(short_entry.file_attrs, DIRECTORY)
        /\ ~HasBits(short_entry.file_attrs, VOLUME_ID)
is_vol_id(short_entry) ==
    ~HasBits(short_entry.file_attrs, DIRECTORY)
        /\ HasBits(short_entry.file_attrs, VOLUME_ID)

set_first_cluster(short_entry, cluster) == [short_entry EXCEPT !.fc = cluster]

LongDirEntry_new(ord, name_part, checksum) ==
    [k |-> "lfn", ord |-> ord, name |-> name_part, chksum |-> checksum]
is_last(lfn) == (lfn.ord \div 64) % 2 = 1
order(lfn) == lfn.ord

\* LongNameEntryGenerator::new: the padded name
LongNamePadded(name) ==
    LET pad_bytes == (13 - (Len(name) % 13)) % 13
    IN  name \o [i \in 1..pad_bytes |-> IF i = 1 THEN 0 ELSE 65535]

num_entries(name) == (Len(LongNamePadded(name)) \div 13) % 256

\* the records LongNameEntryGenerator::next yields, in the order it yields
LongNameEntries(name, checksum) ==
    LET n == LongNamePadded(name)
        last_idx == num_entries(name)
    IN  [j \in 1..last_idx |->
            LET idx == last_idx - j + 1
                start_idx == (idx - 1) * 13
            IN  LongDirEntry_new(IF idx = last_idx THEN idx + 64 ELSE idx,
                                 SubSeq(n, start_idx + 1, start_idx + 13),
                                 checksum)]

\* ShortDirEntry::flush and LongDirEntry::flush: seek_to(offset) and write
\* the 32 bytes of the record
flush(entry, offset, fs) ==
    IF offset \in DOMAIN fs.disk
    THEN [fs EXCEPT !.disk[offset] = entry]
    ELSE fs

\* get_dir_entry_raw: [st, v]; v is [t, e] with t in Short, Long, Free,
\* FreeRest.  The bytes of file data carry attribute bits FileAttributes
\* does not define (DataPatterns), so from_bits is None on a data cell.
first_byte(cell) ==
    CASE cell.k = "zero" -> 0
      [] cell.k = "sfn" -> cell.dir_name[1]
      [] cell.k = "lfn" -> cell.ord
      [] cell.k = "data" -> cell.v
      [] OTHER -> 235        \* the jump opcode of sector 0

get_dir_entry_raw(fs, offset) ==
    IF offset \notin DOMAIN fs.disk THEN [st |-> "err", v |-> None]
    ELSE IF first_byte(fs.disk[offset]) = 0
    THEN [st |-> "ok", v |-> [t |-> "FreeRest"]]
    ELSE IF first_byte(fs.disk[offset]) = 229
    THEN [st |-> "ok", v |-> [t |-> "Free"]]
    ELSE IF fs.disk[offset].k = "sfn"
    THEN [st |-> "ok", v |-> [t |-> "Short", e |-> fs.disk[offset]]]
    ELSE IF fs.disk[offset].k = "lfn"
    THEN [st |-> "ok", v |-> [t |-> "Long", e |-> fs.disk[offset]]]
    ELSE [st |-> "err", v |-> None]

File_new(short_entry, name, loc, dir_path) ==
    [kind |-> IF is_file(short_entry) THEN "File" ELSE "VolID",
     first_cluster |-> short_entry.fc,
     file_path |-> Append(dir_path, name),
     fname |-> name,
     short_dir_entry |-> short_entry,
     loc |-> loc]

Dir_new(short_entry, name, loc, dir_path) ==
    [kind |-> "Dir",
     first_cluster |-> short_entry.fc,
     dir_path |-> Append(dir_path, name),
     dir_name |-> name,
     root_offset |-> None,
     short_dir_entry |-> Some(short_entry),
     loc |-> Some(loc)]

to_dir_entry_lfn(short_entry, name, loc, dir_path) ==
    IF is_file(short_entry) \/ is_vol_id(short_entry)
    THEN File_new(short_entry, name, loc, dir_path)
    ELSE Dir_new(short_entry, name, loc, dir_path)

to_dir_entry(short_entry, loc, dir_path) ==
    to_dir_entry_lfn(short_entry, name_to_string(short_entry),
                     <<loc, loc>>, dir_path)

\* FileSystem::root_dir
root_dir ==
    [kind |-> "Dir", first_cluster |-> root_cluster, dir_path |-> <<>>,
     dir_name |-> <<47>>, root_offset |-> None, short_dir_entry |-> None,
     loc |-> None]

\* DirEntry accessors
entry_is_dir(e) == e.kind = "Dir"
entry_name(e) == IF e.kind = "Dir" THEN e.dir_name ELSE e.fname
entry_dir_path(e) == IF e.kind = "Dir" THEN e.dir_path ELSE e.file_path
entry_short_dir_entry(e) ==
    IF e.kind = "Dir" THEN e.short_dir_entry ELSE Some(e.short_dir_entry)
get_dir_range(e) == IF e.kind = "Dir" THEN e.loc ELSE Some(e.loc)
short_name(e) ==
    LET s == entry_short_dir_entry(e)
    IN  IF s.k = "some" THEN name_to_string(s.v) ELSE <<47>>
short_name_raw(e) ==
    LET s == entry_short_dir_entry(e)
    IN  IF s.k = "some" THEN s.v.dir_name
        ELSE [i \in 1..11 |-> IF i = 1 THEN 47 ELSE 32]

eq_name(e, name) ==
    \/ UpperName(entry_name(e)) = UpperName(name)
    \/ UpperName(short_name(e)) = UpperName(name)

\* LongNameGen::process over the collected LFN records: [st, name, chksum]
RECURSIVE process_loop(_, _, _)
process_loop(lfns, i, g) ==
    IF i > Len(lfns) THEN [st |-> "ok", name |-> g.name, chksum |-> g.chksum]
    ELSE LET lfn == lfns[i]
             index == order(lfn) % 32
             pos == (index - 1) * LFN_PART_LEN
             resized == [j \in 1..(index * LFN_PART_LEN) |->
                            IF j <= Len(g.name) THEN g.name[j] ELSE 0]
             g1 == IF is_last(lfn)
                   THEN [name |-> resized, chksum |-> lfn.chksum,
                         index |-> index]
                   ELSE [g EXCEPT !.index = g.index - 1]
             g2 == [g1 EXCEPT !.name =
                       [j \in 1..Len(g1.name) |->
                           IF j > pos /\ j <= pos + LFN_PART_LEN
                           THEN lfn.name[j - pos] ELSE g1.name[j]]]
         IN  IF index = 0 THEN [st |-> "err", name |-> <<>>, chksum |-> 0]
             ELSE IF /\ ~is_last(lfn)
                     /\ (g.index = 0 \/ index # g.index - 1
                            \/ g.chksum # lfn.chksum)
             THEN [st |-> "err", name |-> <<>>, chksum |-> 0]
             ELSE process_loop(lfns, i + 1, g2)

\* LongNameGen::to_string: the name up to the first U+0000
UpToNul(name) ==
    LET nuls == {j \in 1..Len(name) : name[j] = 0}
    IN  IF nuls = {} THEN name
        ELSE SubSeq(name, 1, (CHOOSE j \in nuls : \A k \in nuls : j <= k) - 1)

\* construct_dentry: [st, v]
construct_dentry_named(short_entry, g, loc, dir_path) ==
    IF g.st # "ok" THEN [st |-> "err", v |-> None]
    ELSE IF g.chksum # compute_checksum(short_entry)
    THEN [st |-> "err", v |-> None]
    ELSE [st |-> "ok",
          v |-> to_dir_entry_lfn(short_entry, UpToNul(g.name), loc, dir_path)]

construct_dentry(lfn_entries, dir_path, loc) ==
    LET n == Len(lfn_entries)
    IN  IF n = 0 THEN [st |-> "err", v |-> None]
        ELSE IF lfn_entries[1].t # "Long" \/ ~is_last(lfn_entries[1].e)
                    \/ lfn_entries[n].t # "Short"
        THEN [st |-> "err", v |-> None]
        ELSE IF \E i \in 1..(n - 1) : lfn_entries[i].t # "Long"
        THEN [st |-> "err", v |-> None]
        ELSE construct_dentry_named(
                 lfn_entries[n].e,
                 process_loop([i \in 1..(n - 1) |-> lfn_entries[i].e], 1,
                              [name |-> <<>>, chksum |-> 0, index |-> 0]),
                 loc, dir_path)

(***************************************************************************)
(* dir_entry.rs: DirIter.  An iterator is [current_cluster, offset]; a     *)
(* walk that does not end within DirFuel steps runs round a cyclic chain   *)
(* for ever.                                                               *)
(***************************************************************************)
DirFuel == ChainFuel * bytes_per_cluster

to_iter(dir) == [current_cluster |-> dir.first_cluster, offset |-> 0]

\* the head of a pass of the loops of get_dir_entry: at the end of a cluster
\* the iterator follows the chain, and stops when the chain ends
iter_at_end(fs, it) ==
    it.offset >= bytes_per_cluster
        /\ get_entry(fs, it.current_cluster).t # "Next"
iter_follow(fs, it) ==
    IF it.offset >= bytes_per_cluster
    THEN [current_cluster |-> get_entry(fs, it.current_cluster).c,
          offset |-> it.offset % bytes_per_cluster]
    ELSE it
iter_raw(fs, it) ==
    get_dir_entry_raw(fs, cluster_offset(it.current_cluster) + it.offset)
iter_step(it) == [it EXCEPT !.offset = it.offset + DIR_ENTRY_LEN]
iter_loc(it) == <<it.current_cluster, it.offset>>

\* the loop "for i in 1..20" of get_dir_entry: [st, it, entries]
RECURSIVE lfn_collect(_, _, _, _)
RECURSIVE lfn_collect_at(_, _, _, _)
RECURSIVE lfn_collect_raw(_, _, _, _, _)
lfn_collect(fs, it, entries, i) ==
    IF i >= 20 \/ iter_at_end(fs, it)
    THEN [st |-> "ok", it |-> it, entries |-> entries]
    ELSE lfn_collect_at(fs, iter_follow(fs, it), entries, i)
lfn_collect_at(fs, it1, entries, i) ==
    lfn_collect_raw(fs, it1, entries, i, iter_raw(fs, it1))
lfn_collect_raw(fs, it1, entries, i, raw) ==
    IF raw.st # "ok" THEN [st |-> "err", it |-> it1, entries |-> entries]
    ELSE IF raw.v.t = "Short"
    THEN [st |-> "ok", it |-> it1, entries |-> Append(entries, raw.v)]
    ELSE IF raw.v.t = "Long"
    THEN lfn_collect(fs, iter_step(it1), Append(entries, raw.v), i + 1)
    ELSE [st |-> "ok", it |-> it1, entries |-> entries]

\* DirIter::get_dir_entry: [st, it, ret]; st is "ok", "err" or "hang"
RECURSIVE get_dir_entry(_, _, _, _)
RECURSIVE get_dir_entry_at(_, _, _, _)
RECURSIVE get_dir_entry_case(_, _, _, _, _)
RECURSIVE get_dir_entry_long(_, _, _, _, _)
RECURSIVE get_dir_entry_built(_, _, _, _, _)
get_dir_entry(fs, it, dir_path, fuel) ==
    IF fuel = 0 THEN [st |-> "hang", it |-> it, ret |-> None]
    ELSE IF iter_at_end(fs, it) THEN [st |-> "ok", it |-> it, ret |-> None]
    ELSE get_dir_entry_at(fs, iter_follow(fs, it), dir_path, fuel)
get_dir_entry_at(fs, it1, dir_path, fuel) ==
    get_dir_entry_case(fs, it1, dir_path, fuel, iter_raw(fs, it1))
get_dir_entry_case(fs, it1, dir_path, fuel, raw) ==
    IF raw.st # "ok" THEN [st |-> "err", it |-> it1, ret |-> None]
    ELSE IF raw.v.t = "Short"
    THEN [st |-> "ok", it |-> iter_step(it1),
          ret |-> Some(to_dir_entry(raw.v.e, iter_loc(it1), dir_path))]
    ELSE IF raw.v.t = "Long"
    THEN get_dir_entry_long(fs, it1, dir_path, fuel,
                            lfn_collect(fs, iter_step(it1), <<raw.v>>, 1))
    ELSE IF raw.v.t = "Free"
    THEN get_dir_entry(fs, iter_step(it1), dir_path, fuel - 1)
    ELSE [st |-> "ok", it |-> it1, ret |-> None]
get_dir_entry_long(fs, it1, dir_path, fuel, col) ==
    IF col.st # "ok" THEN [st |-> "err", it |-> col.it, ret |-> None]
    ELSE get_dir_entry_built(fs, iter_step(col.it), dir_path, fuel,
                             construct_dentry(col.entries, dir_path,
                                              <<iter_loc(it1), iter_loc(col.it)>>))
get_dir_entry_built(fs, past, dir_path, fuel, dentry) ==
    IF dentry.st = "ok" THEN [st |-> "ok", it |-> past, ret |-> Some(dentry.v)]
    ELSE get_dir_entry(fs, past, dir_path, fuel - 1)

\* DirIter::next: an Err of get_dir_entry ends the iteration
DirIter_result(it, r) ==
    IF r.st = "err" THEN [st |-> "ok", it |-> it, ret |-> None] ELSE r
DirIter_next(fs, it, dir_path) ==
    DirIter_result(it, get_dir_entry(fs, it, dir_path, DirFuel))

\* the entries an iteration of the directory yields, as far as fuel goes
RECURSIVE DirIter_collect(_, _, _, _)
RECURSIVE DirIter_rest(_, _, _, _)
DirIter_collect(fs, it, dir_path, fuel) ==
    DirIter_rest(fs, dir_path, fuel, DirIter_next(fs, it, dir_path))
DirIter_rest(fs, dir_path, fuel, r) ==
    IF fuel = 0 \/ r.st # "ok" \/ r.ret.k = "none" THEN <<>>
    ELSE <<r.ret.v>> \o DirIter_collect(fs, r.it, dir_path, fuel - 1)

Dir_entries(fs, dir) ==
    DirIter_collect(fs, to_iter(dir), dir.dir_path, DirFuel)

\* Dir::find_entry: [st, v, sng]; st is "ok", "notfound", "err" or "hang"
RECURSIVE find_entry_loop(_, _, _, _, _, _, _)
RECURSIVE find_entry_match(_, _, _, _, _, _, _)
find_entry_loop(fs, it, dir_path, name, expected_dir, sng, fuel) ==
    find_entry_match(fs, dir_path, name, expected_dir, sng, fuel,
                     DirIter_next(fs, it, dir_path))
find_entry_match(fs, dir_path, name, expected_dir, sng, fuel, r) ==
    IF fuel = 0 \/ r.st = "hang"
    THEN [st |-> "hang", v |-> None, sng |-> sng]
    ELSE IF r.ret.k = "none"
    THEN [st |-> "notfound", v |-> None, sng |-> sng]
    ELSE IF eq_name(r.ret.v, name)
    THEN IF expected_dir.k = "some" /\ entry_is_dir(r.ret.v) # expected_dir.v
         THEN [st |-> "err",
               v |-> IF entry_is_dir(r.ret.v) THEN "Is a directory"
                     ELSE "Is a file",
               sng |-> sng]
         ELSE [st |-> "ok", v |-> r.ret.v, sng |-> sng]
    ELSE find_entry_loop(fs, r.it, dir_path, name, expected_dir,
                         IF sng.k = "some"
                         THEN Some(add_name(sng.v, short_name_raw(r.ret.v)))
                         ELSE sng,
                         fuel - 1)

find_entry(dir, name, expected_dir, short_name_gen, fs) ==
    find_entry_loop(fs, to_iter(dir), dir.dir_path, name, expected_dir,
                    short_name_gen, DirFuel)

\* Dir::is_empty: "true", "false" or "hang"
IsDotName(s) == s = <<DOT>> \/ s = <<DOT, DOT>>

RECURSIVE is_empty_loop(_, _, _, _)
RECURSIVE is_empty_entry(_, _, _, _)
is_empty_loop(fs, it, dir_path, fuel) ==
    is_empty_entry(fs, dir_path, fuel, DirIter_next(fs, it, dir_path))
is_empty_entry(fs, dir_path, fuel, r) ==
    IF fuel = 0 \/ r.st = "hang" THEN "hang"
    ELSE IF r.ret.k = "none" THEN "true"
    ELSE IF IsDotName(short_name(r.ret.v))
    THEN is_empty_loop(fs, r.it, dir_path, fuel - 1)
    ELSE "false"

is_empty(dir, fs) == is_empty_loop(fs, to_iter(dir), dir.dir_path, DirFuel)

(***************************************************************************)
(* dir_entry.rs: paths.  A path is the sequence of its non-empty           *)
(* components: trim_matches('/') and the splits drop the empty ones.       *)
(***************************************************************************)
NonEmptyName(n) == n # <<>>
Components(path) == SelectSeq(path, NonEmptyName)

\* split_path: the first component and the rest (None when there is none)
split_path(path) ==
    LET p == Components(path)
    IN  IF Len(p) = 0 THEN [comp |-> <<>>, rest |-> None]
        ELSE [comp |-> p[1],
              rest |-> IF Len(p) > 1 THEN Some(Tail(p)) ELSE None]

\* rsplit_path: the last component and what precedes it
rsplit_path(path) ==
    LET p == Components(path)
    IN  IF Len(p) = 0 THEN [comp |-> <<>>, rest |-> None]
        ELSE [comp |-> p[Len(p)],
              rest |-> IF Len(p) > 1 THEN Some(SubSeq(p, 1, Len(p) - 1))
                       ELSE None]

(***************************************************************************)
(* dir_entry.rs: directory operations.                                     *)
(***************************************************************************)
RECURSIVE alloc_chain(_, _, _, _)
RECURSIVE alloc_chain_next(_, _, _)
alloc_chain(fs, prev_cluster, n, first_cluster) ==
    IF n = 0 THEN Ok(fs, first_cluster)
    ELSE alloc_chain_next(allocate_cluster(fs, Some(prev_cluster)), n,
                          first_cluster)
alloc_chain_next(r, n, first_cluster) ==
    IF r.st # "ok" THEN r
    ELSE alloc_chain(r.fs, r.v, n - 1,
                     IF first_cluster = 0 THEN r.v ELSE first_cluster)

\* the loop of find_free_entries: [st, cc, free, first_free]; st is "found",
\* "break", "err" or "hang"
RECURSIVE find_free_loop(_, _, _, _, _, _)
RECURSIVE find_free_slot(_, _, _, _, _, _, _)
find_free_loop(fs, it, free, first_free, num_free, fuel) ==
    IF fuel = 0
    THEN [st |-> "hang", cc |-> it.current_cluster, free |-> free,
          first_free |-> first_free]
    ELSE IF iter_at_end(fs, it)
    THEN [st |-> "break", cc |-> it.current_cluster, free |-> free,
          first_free |-> first_free]
    ELSE find_free_slot(fs, iter_follow(fs, it), free, first_free, num_free,
                        fuel, iter_raw(fs, iter_follow(fs, it)))
find_free_slot(fs, it1, free, first_free, num_free, fuel, raw) ==
    IF raw.st # "ok"
    THEN [st |-> "err", cc |-> it1.current_cluster, free |-> free,
          first_free |-> first_free]
    ELSE IF raw.v.t \notin {"Free", "FreeRest"}
    THEN find_free_loop(fs, iter_step(it1), 0, first_free, num_free, fuel - 1)
    ELSE IF free + 1 = num_free
    THEN [st |-> "found", cc |-> it1.current_cluster, free |-> free + 1,
          first_free |-> IF free = 0 THEN Some(iter_loc(it1)) ELSE first_free]
    ELSE find_free_loop(fs, iter_step(it1), free + 1,
                        IF free = 0 THEN Some(iter_loc(it1)) ELSE first_free,
                        num_free, fuel - 1)

find_free_extended(l, a) ==
    IF a.st # "ok" THEN a
    ELSE IF l.free > 0 THEN Ok(a.fs, l.first_free)
    ELSE Ok(a.fs, Some(<<a.v, 0>>))

find_free_scanned(fs, num_free, l) ==
    CASE l.st = "hang" -> Fail("hang", fs)
      [] l.st = "err" -> Err(fs, "io")
      [] l.st = "found" -> Ok(fs, l.first_free)
      [] OTHER ->
            find_free_extended(
                l,
                alloc_chain(fs, l.cc,
                            ((num_free - l.free) * DIR_ENTRY_LEN
                                + bytes_per_cluster - 1) \div bytes_per_cluster,
                            0))

find_free_entries(dir, num_free, fs) ==
    find_free_scanned(fs, num_free,
                      find_free_loop(fs, to_iter(dir), 0, None, num_free,
                                     DirFuel + 1))

\* the offsets DirEntryOffsetIter yields
RECURSIVE DirEntryOffsetIter(_, _, _, _, _, _)
DirEntryOffsetIter(fs, current_offset, idx, len, end_offset, fin) ==
    LET r == current_offset
        wrap == r[2] + DIR_ENTRY_LEN >= bytes_per_cluster
        e == get_entry(fs, r[1])
        new_offset == IF wrap THEN (r[2] + DIR_ENTRY_LEN) % bytes_per_cluster
                      ELSE r[2] + DIR_ENTRY_LEN
        new_cluster == IF wrap THEN e.c ELSE r[1]
        fin1 == IF end_offset.k = "some" THEN end_offset.v = current_offset
                ELSE fin
    IN  IF idx = len \/ fin THEN <<>>
        ELSE IF wrap /\ e.t # "Next" THEN <<>>
        ELSE <<r>> \o DirEntryOffsetIter(fs, <<new_cluster, new_offset>>,
                                         idx + 1, len, end_offset, fin1)

RECURSIVE flush_all(_, _, _, _)
flush_all(entries, offsets, i, fs) ==
    IF i > Len(entries) THEN fs
    ELSE flush_all(entries, offsets, i + 1,
                   flush(entries[i],
                         cluster_offset(offsets[i][1]) + offsets[i][2], fs))

\* the records are written at the offsets the iterator yields: the long
\* entries first, the short entry at the last offset
create_dir_entries_at(dir, lname, short_entry, lng, offsets, fs) ==
    IF Len(offsets) = 0 THEN Fail("panic", fs)
    ELSE Ok(flush(short_entry,
                  cluster_offset(offsets[Len(offsets)][1])
                      + offsets[Len(offsets)][2],
                  flush_all(SubSeq(lng, 1, Len(offsets) - 1), offsets, 1, fs)),
            to_dir_entry_lfn(short_entry, lname,
                             <<offsets[1], offsets[Len(offsets)]>>,
                             dir.dir_path))

create_dir_entries_free(dir, lname, short_entry, free_entries) ==
    IF free_entries.st # "ok" THEN free_entries
    ELSE IF free_entries.v.k = "none"
    THEN Err(free_entries.fs, "No space left in dir/disk")
    ELSE create_dir_entries_at(
             dir, lname, short_entry,
             LongNameEntries(lname, compute_checksum(short_entry)),
             DirEntryOffsetIter(free_entries.fs, free_entries.v.v, 0,
                                num_entries(lname) + 1, None, FALSE),
             free_entries.fs)

create_dir_entries_short(dir, lname, short_entry, fs) ==
    create_dir_entries_free(dir, lname, short_entry,
                            find_free_entries(dir, num_entries(lname) + 1, fs))

create_dir_entries(dir, lname, sname, short_entry_opt, fattrs, fs) ==
    create_dir_entries_short(
        dir, lname,
        [(IF short_entry_opt.k = "some" THEN short_entry_opt.v
          ELSE ShortDirEntryDefault)
            EXCEPT !.dir_name = sname, !.file_attrs = fattrs],
        fs)

FreeMarker == [ShortDirEntryDefault EXCEPT !.dir_name[1] = 229]
RemoveCap == 15

remove_dir_entries(dir, rng, fs) ==
    LET offsets == DirEntryOffsetIter(fs, rng[1], 0, RemoveCap, Some(rng[2]),
                                      FALSE)
    IN  Ok(flush_all([i \in 1..Len(offsets) |-> FreeMarker], offsets, 1, fs), 0)

\* Dir::check_existence: v is [t |-> "DirEntry", e] or [t |-> "ShortName", s]
RECURSIVE check_existence_loop(_, _, _, _, _, _)
RECURSIVE check_existence_found(_, _, _, _, _, _)
RECURSIVE check_existence_name(_, _, _, _, _, _, _)
check_existence_loop(dir, name, expected_dir, fs, sng, fuel) ==
    check_existence_found(dir, name, expected_dir, fs, fuel,
                          find_entry(dir, name, expected_dir, Some(sng), fs))
check_existence_found(dir, name, expected_dir, fs, fuel, r) ==
    IF fuel = 0 \/ r.st = "hang" THEN Fail("hang", fs)
    ELSE IF r.st = "err" THEN Err(fs, r.v)
    ELSE IF r.st = "ok" THEN Ok(fs, [t |-> "DirEntry", e |-> r.v])
    ELSE check_existence_name(dir, name, expected_dir, fs, fuel, r.sng.v,
                              generate(r.sng.v))
check_existence_name(dir, name, expected_dir, fs, fuel, sng, g) ==
    IF g.st = "ok" THEN Ok(fs, [t |-> "ShortName", s |-> g.v])
    ELSE check_existence_loop(dir, name, expected_dir, fs,
                              next_iteration(sng), fuel - 1)

CheckExistenceFuel == 3
check_existence(dir, name, expected_dir, fs) ==
    check_existence_loop(dir, name, expected_dir, fs, ShortNameGen_new(name),
                         CheckExistenceFuel)

\* what a failed find_entry returns to the caller of a directory operation
FindErr(r, fs) ==
    IF r.st = "hang" THEN Fail("hang", fs)
    ELSE IF r.st = "notfound" THEN Err(fs, "NotFound")
    ELSE Err(fs, r.v)

\* Dir::create_file
create_file_checked(dir, name, fs, r) ==
    IF r.st # "ok" THEN r
    ELSE IF r.v.t = "ShortName"
    THEN create_dir_entries(dir, name, r.v.s, None, ARCHIVE, fs)
    ELSE Ok(fs, r.v.e)

RECURSIVE create_file(_, _, _)
RECURSIVE create_file_split(_, _, _)
RECURSIVE create_file_in(_, _, _)
create_file(dir, path, fs) == create_file_split(dir, split_path(path), fs)
create_file_split(dir, sp, fs) ==
    IF sp.rest.k = "some"
    THEN create_file_in(find_entry(dir, sp.comp, Some(TRUE), None, fs),
                        sp.rest.v, fs)
    ELSE create_file_checked(dir, sp.comp, fs,
                             check_existence(dir, sp.comp, Some(FALSE), fs))
create_file_in(sub, rest, fs) ==
    IF sub.st # "ok" THEN FindErr(sub, fs) ELSE create_file(sub.v, rest, fs)

\* Dir::create_dir
DotEntry(name, cluster) ==
    [ShortDirEntryDefault EXCEPT
        !.dir_name = generate(ShortNameGen_new(name)).v,
        !.file_attrs = DIRECTORY,
        !.fc = cluster]

create_dir_allocated(dir, name, sname, a) ==
    IF a.st # "ok" THEN a
    ELSE create_dir_entries(
             dir, name, sname,
             Some(set_first_cluster(ShortDirEntryDefault, a.v)), DIRECTORY,
             flush(DotEntry(<<DOT, DOT>>, dir.first_cluster),
                   cluster_offset(a.v) + DIR_ENTRY_LEN,
                   flush(DotEntry(<<DOT>>, a.v), cluster_offset(a.v), a.fs)))

create_dir_checked(dir, name, fs, r) ==
    IF r.st # "ok" THEN r
    ELSE IF r.v.t = "ShortName"
    THEN create_dir_allocated(dir, name, r.v.s, allocate_cluster(fs, None))
    ELSE Ok(fs, r.v.e)

RECURSIVE create_dir(_, _, _)
RECURSIVE create_dir_split(_, _, _)
RECURSIVE create_dir_in(_, _, _)
create_dir(dir, path, fs) == create_dir_split(dir, split_path(path), fs)
create_dir_split(dir, sp, fs) ==
    IF sp.rest.k = "some"
    THEN create_dir_in(find_entry(dir, sp.comp, Some(TRUE), None, fs),
                       sp.rest.v, fs)
    ELSE create_dir_checked(dir, sp.comp, fs,
                            check_existence(dir, sp.comp, Some(TRUE), fs))
create_dir_in(sub, rest, fs) ==
    IF sub.st # "ok" THEN FindErr(sub, fs) ELSE create_dir(sub.v, rest, fs)

\* Dir::remove
remove_freed(dir, e, d) ==
    IF d.st # "ok" THEN d
    ELSE IF get_dir_range(e).k = "some"
    THEN remove_dir_entries(dir, get_dir_range(e).v, d.fs)
    ELSE Ok(d.fs, 0)

remove_entry(dir, e, fs, empty) ==
    IF entry_is_dir(e) /\ empty = "hang" THEN Fail("hang", fs)
    ELSE IF entry_is_dir(e) /\ empty = "false"
    THEN Err(fs, "Directory not empty")
    ELSE remove_freed(dir, e,
                      IF e.first_cluster >= 2
                      THEN deallocate_cluster_chain(fs, e.first_cluster)
                      ELSE Ok(fs, 0))

remove_found(dir, fs, f) ==
    IF f.st # "ok" THEN FindErr(f, fs)
    ELSE remove_entry(dir, f.v, fs,
                      IF entry_is_dir(f.v) THEN is_empty(f.v, fs) ELSE "true")

RECURSIVE remove(_, _, _)
RECURSIVE remove_split(_, _, _)
RECURSIVE remove_in(_, _, _)
remove(dir, path, fs) == remove_split(dir, split_path(path), fs)
remove_split(dir, sp, fs) ==
    IF sp.rest.k = "some"
    THEN remove_in(find_entry(dir, sp.comp, Some(TRUE), None, fs),
                   sp.rest.v, fs)
    ELSE remove_found(dir, fs, find_entry(dir, sp.comp, None, None, fs))
remove_in(sub, rest, fs) ==
    IF sub.st # "ok" THEN FindErr(sub, fs) ELSE remove(sub.v, rest, fs)

\* Dir::get_entry
Dir_get_entry_found(fs, f) ==
    IF f.st # "ok" THEN FindErr(f, fs) ELSE Ok(fs, f.v)

RECURSIVE Dir_get_entry(_, _, _)
RECURSIVE Dir_get_entry_split(_, _, _)
RECURSIVE Dir_get_entry_in(_, _, _)
Dir_get_entry(dir, path, fs) == Dir_get_entry_split(dir, split_path(path), fs)
Dir_get_entry_split(dir, sp, fs) ==
    IF sp.rest.k = "some"
    THEN Dir_get_entry_in(find_entry(dir, sp.comp, Some(TRUE), None, fs),
                          sp.rest.v, fs)
    ELSE IF Len(sp.comp) = 0 THEN Ok(fs, dir)
    ELSE Dir_get_entry_found(fs, find_entry(dir, sp.comp, None, None, fs))
Dir_get_entry_in(sub, rest, fs) ==
    IF sub.st # "ok" THEN FindErr(sub, fs) ELSE Dir_get_entry(sub.v, rest, fs)

get_entry_abs(path, fs) == Dir_get_entry(root_dir, path, fs)

\* Dir::get_parent: v is Some(dir) or None
get_parent_found(fs, r) ==
    IF r.st # "ok" THEN r
    ELSE Ok(fs, IF entry_is_dir(r.v) THEN Some(r.v) ELSE None)
get_parent_split(sp, fs) ==
    IF sp.rest.k = "none" THEN Ok(fs, Some(root_dir))
    ELSE get_parent_found(fs, Dir_get_entry(root_dir, sp.rest.v, fs))
get_parent(abs_path, fs) == get_parent_split(rsplit_path(abs_path), fs)

\* Dir::rename.  The new entry is created with the short entry of the
\* source, then the source is removed from its directory by name.
rename_removed(r) == IF r.st # "ok" THEN r ELSE Ok(r.fs, 0)

rename_created(src_entry, src_dir, c) ==
    IF c.st # "ok" THEN c
    ELSE rename_removed(remove(src_dir, <<entry_name(src_entry)>>, c.fs))

\* lname and sname are the long and the short name of the new entry
rename_create(src_entry, src_dir, dst_dir, lname, sname, se, fs) ==
    rename_created(src_entry, src_dir,
                   create_dir_entries(dst_dir, lname, sname, se,
                                      se.v.file_attrs, fs))

\* the destination exists: it is removed first
rename_replace(src_entry, src_dir, dst_dir, dst_name, e, se, rm) ==
    IF rm.st # "ok" THEN rm
    ELSE IF se.k = "none"
    THEN IF entry_is_dir(e) THEN Err(rm.fs, "Cannot move root dir")
         ELSE Fail("panic", rm.fs)
    ELSE rename_create(src_entry, src_dir, dst_dir, entry_name(e),
                       short_name_raw(e), se, rm.fs)

rename_checked(src_entry, src_dir, dst_dir, dst_name, se, fs, ce) ==
    IF ce.st # "ok" THEN ce
    ELSE IF ce.v.t = "DirEntry"
    THEN rename_replace(src_entry, src_dir, dst_dir, dst_name, ce.v.e, se,
                        remove(dst_dir, <<dst_name>>, fs))
    ELSE IF se.k = "none" THEN Err(fs, "Cannot move root dir")
    ELSE rename_create(src_entry, src_dir, dst_dir, dst_name, ce.v.s, se, fs)

rename_from(src_entry, dst_dir, dst_name, fs, pr) ==
    IF pr.st = "hang" THEN pr
    ELSE IF pr.st # "ok" \/ pr.v.k = "none"
    THEN Err(fs, "Src directory not found")
    ELSE rename_checked(src_entry, pr.v.v, dst_dir, dst_name,
                        entry_short_dir_entry(src_entry), fs,
                        check_existence(dst_dir, dst_name,
                                        Some(entry_is_dir(src_entry)), fs))

rename_to(src_entry, dst_dir, dst_name, fs) ==
    rename_from(src_entry, dst_dir, dst_name, fs,
                get_parent(entry_dir_path(src_entry), fs))

rename_dst(src_entry, sp, fs, dd) ==
    IF sp.rest.k = "some" /\ dd.st # "ok" THEN dd
    ELSE IF sp.rest.k = "some" /\ ~entry_is_dir(dd.v)
    THEN Err(fs, "Invalid destination path")
    ELSE rename_to(src_entry, IF sp.rest.k = "none" THEN root_dir ELSE dd.v,
                   sp.comp, fs)

rename_split(src_entry, sp, fs) ==
    rename_dst(src_entry, sp, fs,
               IF sp.rest.k = "some" THEN get_entry_abs(sp.rest.v, fs)
               ELSE Ok(fs, root_dir))

rename(src_entry, dst_path, fs) ==
    rename_split(src_entry, rsplit_path(dst_path), fs)

(***************************************************************************)
(* dir_entry.rs: File.  The operations that take &mut self return the      *)
(* File as the call leaves it in field f.                                  *)
(***************************************************************************)
FRes(st, fs, v, f) == [st |-> st, fs |-> fs, v |-> v, f |-> f]

size(f) == f.short_dir_entry.file_size
entry_size(e) == IF e.kind = "Dir" THEN 0 ELSE size(e)
set_size(f, sz) == [f EXCEPT !.short_dir_entry.file_size = sz]

\* the loop of File::read: [st, v]; v is the sequence of cells read
RECURSIVE read_loop(_, _, _, _, _, _)
RECURSIVE read_chunk(_, _, _, _, _, _)
RECURSIVE read_next(_, _, _, _, _, _, _)
read_loop(fs, current_cluster, cluster_off, out, read_size, buf_len) ==
    IF cluster_off < bytes_per_cluster
    THEN read_chunk(fs, current_cluster, cluster_off, out, read_size, buf_len)
    ELSE IF get_entry(fs, current_cluster).t = "Next"
    THEN read_chunk(fs, get_entry(fs, current_cluster).c,
                    cluster_off % bytes_per_cluster, out, read_size, buf_len)
    ELSE [st |-> "ok", v |-> out]
read_chunk(fs, cc, co, out, read_size, buf_len) ==
    read_next(fs, cc, co, out, read_size, buf_len,
              read_at(fs, cluster_offset(cc) + co,
                      Min(Min(bytes_per_cluster - co, buf_len - Len(out)),
                          read_size - Len(out))))
read_next(fs, cc, co, out, read_size, buf_len, r) ==
    IF r.st # "ok" THEN [st |-> "err", v |-> out]
    ELSE IF Len(out) + Len(r.v) = read_size
    THEN [st |-> "ok", v |-> out \o r.v]
    ELSE read_loop(fs, cc, co + Len(r.v), out \o r.v, read_size, buf_len)

read_from(f, buf_len, fs, offset, start) ==
    IF start.k = "none" THEN [st |-> "ok", v |-> <<>>]
    ELSE read_loop(fs, start.v, offset % bytes_per_cluster, <<>>,
                   Min(buf_len, size(f) - offset), buf_len)

read(f, buf_len, fs, offset) ==
    IF offset >= size(f) THEN [st |-> "ok", v |-> <<>>]
    ELSE read_from(f, buf_len, fs, offset,
                   get_cluster_relative(fs, f.first_cluster,
                                        offset \div bytes_per_cluster))

zero_range_written(w) ==
    IF w.st # "ok" THEN Err(w.fs, "io") ELSE Ok(w.fs, 0)
zero_range(fs, range_start, range_end) ==
    IF range_end < range_start THEN Ok(fs, 0)
    ELSE zero_range_written(
             write_to(fs, range_start,
                      [i \in 1..(range_end - range_start + 1) |-> ZeroCell]))

\* the short entry of the file is written back at its slot
File_flush(f, fs) ==
    FRes("ok",
         flush(f.short_dir_entry, cluster_offset(f.loc[2][1]) + f.loc[2][2],
               fs),
         0, f)

\* File::ensure_len, in the order of its steps
ensure_len_resize(f1, extra_bytes, z) ==
    IF z.st # "ok" THEN FRes(z.st, z.fs, z.v, f1)
    ELSE File_flush(set_size(f1, size(f1) + extra_bytes), z.fs)

ensure_len_hole(f1, offset, extra_bytes, fs2, s_cluster, offset_cluster) ==
    LET start_offset == cluster_offset(s_cluster.v)
                            + (size(f1) % bytes_per_cluster)
        b_remaining == bytes_per_cluster - (size(f1) % bytes_per_cluster)
    IN  IF s_cluster.k = "none" \/ offset_cluster.k = "none"
        THEN FRes("panic", fs2, 0, f1)
        ELSE ensure_len_resize(
                 f1, extra_bytes,
                 IF s_cluster.v # offset_cluster.v
                 THEN zero_range(fs2, start_offset,
                                 start_offset + b_remaining - 1)
                 ELSE zero_range(fs2, start_offset,
                                 start_offset + offset - size(f1) - 1))

ensure_len_extended(f1, offset, extra_bytes, ext) ==
    IF ext.st # "ok" THEN FRes(ext.st, ext.fs, ext.v, f1)
    ELSE IF offset > size(f1)
    THEN ensure_len_hole(
             f1, offset, extra_bytes, ext.fs,
             get_cluster_relative(ext.fs, f1.first_cluster,
                                  size(f1) \div bytes_per_cluster),
             get_cluster_relative(ext.fs, f1.first_cluster,
                                  offset \div bytes_per_cluster))
    ELSE ensure_len_resize(f1, extra_bytes, Ok(ext.fs, 0))

ensure_len_grow(f1, offset, len, fs1) ==
    LET bytes_remaining_cluster ==
            bytes_per_cluster - (size(f1) % bytes_per_cluster)
        extra_bytes == Min((offset + len) - size(f1), MAX_FILE_SIZE - size(f1))
    IN  IF bytes_remaining_cluster >= extra_bytes
        THEN ensure_len_extended(f1, offset, extra_bytes, Ok(fs1, 0))
        ELSE IF Cyclic(fs1, f1.first_cluster) THEN FRes("hang", fs1, 0, f1)
        ELSE ensure_len_extended(
                 f1, offset, extra_bytes,
                 alloc_chain(fs1, get_last_cluster(fs1, f1.first_cluster).v,
                             (extra_bytes - bytes_remaining_cluster
                                 + bytes_per_cluster - 1)
                                 \div bytes_per_cluster,
                             0))

ensure_len_first(f, offset, len, a) ==
    IF a.st # "ok" THEN FRes(a.st, a.fs, a.v, f)
    ELSE ensure_len_grow(
             [f EXCEPT !.first_cluster = a.v,
                       !.short_dir_entry =
                           set_first_cluster(f.short_dir_entry, a.v)],
             offset, len, a.fs)

ensure_len(f, offset, len, fs) ==
    IF offset + len <= size(f) THEN FRes("ok", fs, 0, f)
    ELSE IF size(f) = 0
    THEN ensure_len_first(f, offset, len, allocate_cluster(fs, None))
    ELSE ensure_len_grow(f, offset, len, fs)

\* the loop of File::write: [st, fs, v]; v is the count written
RECURSIVE write_loop(_, _, _, _, _)
RECURSIVE write_chunk(_, _, _, _, _)
RECURSIVE write_next(_, _, _, _, _)
write_loop(fs, current_cluster, cluster_off, written, buf) ==
    IF cluster_off < bytes_per_cluster
    THEN write_chunk(fs, current_cluster, cluster_off, written, buf)
    ELSE IF get_entry(fs, current_cluster).t = "Next"
    THEN write_chunk(fs, get_entry(fs, current_cluster).c,
                     cluster_off % bytes_per_cluster, written, buf)
    ELSE Ok(fs, written)
write_chunk(fs, cc, co, written, buf) ==
    write_next(cc, co, written, buf,
               write_to(fs, cluster_offset(cc) + co,
                        SubSeq(buf, written + 1,
                               written + Min(bytes_per_cluster - co,
                                             Len(buf) - written))))
write_next(cc, co, written, buf, w) ==
    IF w.st # "ok" THEN Err(w.fs, "io")
    ELSE IF written + w.v = Len(buf) THEN Ok(w.fs, written + w.v)
    ELSE write_loop(w.fs, cc, co + w.v, written + w.v, buf)

write_done(f, l) == FRes(l.st, l.fs, l.v, f)

write_from(buf, offset, en, start) ==
    IF start.k = "none" THEN FRes("ok", en.fs, 0, en.f)
    ELSE write_done(en.f, write_loop(en.fs, start.v,
                                     offset % bytes_per_cluster, 0, buf))

write_ensured(buf, offset, en) ==
    IF en.st # "ok" THEN en
    ELSE write_from(buf, offset, en,
                    get_cluster_relative(en.fs, en.f.first_cluster,
                                         offset \div bytes_per_cluster))

write(f, buf, fs, offset) ==
    write_ensured(buf, offset, ensure_len(f, offset, Len(buf), fs))

\* File::truncate
truncate_freed(f, new_size, d) ==
    IF d.st # "ok" THEN FRes(d.st, d.fs, d.v, f)
    ELSE File_flush(set_size(f, new_size), d.fs)

truncate_from(f, fs, new_size, c) ==
    truncate_freed(f, new_size,
                   IF c.k = "some" THEN deallocate_cluster_chain(fs, c.v)
                   ELSE Ok(fs, 0))

truncate(f, fs, new_size) ==
    IF new_size >= size(f) THEN FRes("ok", fs, 0, f)
    ELSE truncate_from(f, fs, new_size,
                       get_cluster_relative(fs, f.first_cluster,
                                            new_size \div bytes_per_cluster + 1))

(***************************************************************************)
(* filesystem.rs: unmount.                                                 *)
(***************************************************************************)
CLEAN_SHUT_BIT == 134217728     \* 0x08000000
HARD_ERROR_BIT == 67108864      \* 0x04000000
SetBit(x, b) == IF (x \div b) % 2 = 1 THEN x ELSE x + b

set_clean_shut_bit(fs) ==
    set_entry(fs, 1, NextC(SetBit(RawFat(fs, 1), CLEAN_SHUT_BIT)))
set_hard_error_bit(fs) ==
    set_entry(fs, 1, NextC(SetBit(RawFat(fs, 1), HARD_ERROR_BIT)))

\* FsInfo::flush: the free count and the hint as stored in the FSInfo sector
FsInfo_flush(info) ==
    [free_count |-> info.free_count, next_free |-> info.next_free]

(***************************************************************************)
(* The state machine.  The client holds up to MaxFiles open entries (the   *)
(* File or Dir a resource of the scheme keeps) and issues one operation at *)
(* a time.  A panic or a call that never returns ends the behaviour.       *)
(***************************************************************************)
Handles == 1..MaxFiles

NameA == <<97>>
NameB == <<98>>
NameD == <<100>>
FilePaths == {<<NameA>>, <<NameB>>, <<NameD, NameA>>}
DirPaths == {<<NameD>>}
AllPaths == FilePaths \cup DirPaths
DataPatterns == {170}
WriteLens == {1, bytes_per_cluster, bytes_per_cluster + 1, 2 * bytes_per_cluster}
WriteOffsets == {0, 1, bytes_per_cluster}
TruncateSizes == {0, 1, bytes_per_cluster}

FS == [fat |-> fat, disk |-> disk, fs_info |-> fs_info]
Commit(fs) ==
    /\ fat' = fs.fat
    /\ disk' = fs.disk
    /\ fs_info' = fs.fs_info
    /\ UNCHANGED <<bpb, server, fat_region>>

Running ==
    /\ nops < MaxOps
    /\ last.st \notin {"panic", "hang"}
    /\ last.op # "unmount"

\* the clusters a fresh scan finds in use
Allocated(fs) == {c \in Clusters : RawFat(fs, c) # 0}

\* the BPB of the modelled volume: FAT32, two FATs, mirroring on
Fat32Bpb == [fat_type |-> "FAT32", num_fats |-> 2, mirroring |-> TRUE]

Init ==
    /\ fat = [c \in 0..MaxCluster |->
                 IF c = 0 THEN FAT_EOC_MIN
                 ELSE IF c = 1 \/ c = root_cluster THEN FAT_EOC
                 ELSE 0]
    /\ disk = [a \in 0..(DiskEnd - 1) |->
                  IF a < first_data_offset THEN MetaCell ELSE ZeroCell]
    /\ fs_info = [free_count |-> MaxCluster - RESERVED_CLUSTERS,
                  next_free |-> RESERVED_CLUSTERS]
    /\ info_disk = [free_count |-> MaxCluster - RESERVED_CLUSTERS,
                    next_free |-> RESERVED_CLUSTERS]
    /\ files = [h \in Handles |-> None]
    /\ last = [op |-> "mount", st |-> "ok"]
    /\ nops = 0
    /\ server = ServerOff
    /\ bpb = Fat32Bpb
    /\ fat_region = <<>>

\* the 11-byte short names of the live entries of the directory that holds
\* path
ParentOf(path, fs) ==
    IF Len(path) <= 1 THEN [st |-> "ok", v |-> root_dir]
    ELSE get_entry_abs(SubSeq(path, 1, Len(path) - 1), fs)
ShortNamesIn(fs, parent) ==
    IF parent.st = "ok" /\ parent.v.kind = "Dir"
    THEN {short_name_raw(Dir_entries(fs, parent.v)[i]) :
             i \in 1..Len(Dir_entries(fs, parent.v))}
    ELSE {}
SiblingShortNames(path, fs) == ShortNamesIn(fs, ParentOf(path, fs))

\* what an operation that creates an entry records
Created(op, path, r, pre) ==
    [op |-> op, path |-> path, st |-> r.st,
     existed |-> pre.st = "ok",
     pre_short |-> SiblingShortNames(path, FS),
     pre_free |-> get_free_count(FS, MaxCluster),
     pre_alloc |-> Allocated(FS),
     err |-> IF r.st = "err" THEN r.v ELSE "",
     entry |-> IF r.st = "ok" THEN r.v ELSE None,
     pre_entry |-> IF pre.st = "ok" THEN pre.v ELSE None,
     unchanged |-> r.fs = FS]

\* open with O_CREAT: Dir::create_file from the root
CreateFileDone(h, path, r, pre) ==
    /\ Commit(r.fs)
    /\ files' = IF r.st = "ok" THEN [files EXCEPT ![h] = r.v] ELSE files
    /\ last' = Created("create_file", path, r, pre)
    /\ info_disk' = info_disk
    /\ nops' = nops + 1

CreateFile(h, path) ==
    /\ Running
    /\ files[h] = None
    /\ CreateFileDone(h, path, create_file(root_dir, path, FS),
                      get_entry_abs(path, FS))

\* mkdir: Dir::create_dir from the root
CreateDirDone(path, r, pre) ==
    /\ Commit(r.fs)
    /\ last' = Created("create_dir", path, r, pre)
    /\ UNCHANGED <<info_disk, files>>
    /\ nops' = nops + 1

CreateDir(path) ==
    /\ Running
    /\ CreateDirDone(path, create_dir(root_dir, path, FS),
                     get_entry_abs(path, FS))

\* open of an existing path: Dir::get_entry_abs
OpenDone(h, path, r) ==
    /\ r.st = "ok"
    /\ files' = [files EXCEPT ![h] = r.v]
    /\ last' = [op |-> "open", path |-> path, st |-> r.st]
    /\ UNCHANGED <<fat, disk, fs_info, info_disk, bpb, server, fat_region>>
    /\ nops' = nops + 1

Open(h, path) ==
    /\ Running
    /\ files[h] = None
    /\ OpenDone(h, path, get_entry_abs(path, FS))

Close(h) ==
    /\ Running
    /\ files[h] # None
    /\ files' = [files EXCEPT ![h] = None]
    /\ last' = [op |-> "close", st |-> "ok"]
    /\ UNCHANGED <<fat, disk, fs_info, info_disk, bpb, server, fat_region>>
    /\ nops' = nops + 1

WriteDone(h, offset, buf, r) ==
    /\ Commit(r.fs)
    /\ files' = [files EXCEPT ![h] = r.f]
    /\ last' = [op |-> "write", h |-> h, offset |-> offset,
                buf |-> buf, st |-> r.st, v |-> r.v,
                err |-> IF r.st = "err" THEN r.v ELSE "",
                pre_free |-> get_free_count(FS, MaxCluster),
                pre_alloc |-> Allocated(FS),
                pre_size |-> size(files[h])]
    /\ info_disk' = info_disk
    /\ nops' = nops + 1

WriteBuf(h, offset, buf) ==
    WriteDone(h, offset, buf, write(files[h], buf, FS, offset))

Write(h, offset, len, pat) ==
    /\ Running
    /\ files[h] # None
    /\ files[h].kind = "File"
    /\ WriteBuf(h, offset, [i \in 1..len |-> DataCell(pat)])

TruncateDone(h, new_size, r) ==
    /\ Commit(r.fs)
    /\ files' = [files EXCEPT ![h] = r.f]
    /\ last' = [op |-> "truncate", h |-> h, new_size |-> new_size,
                st |-> r.st,
                pre_size |-> size(files[h]),
                pre_chain |-> ChainOf(FS, files[h].first_cluster),
                pre_wf |-> WellFormedChain(FS, files[h].first_cluster),
                pre_free |-> fs_info.free_count]
    /\ info_disk' = info_disk
    /\ nops' = nops + 1

Truncate(h, new_size) ==
    /\ Running
    /\ files[h] # None
    /\ files[h].kind = "File"
    /\ TruncateDone(h, new_size, truncate(files[h], FS, new_size))

\* the absolute offsets of the slots from rng[1] to rng[2] inclusive, along
\* the cluster chain of the directory
RECURSIVE SlotsBetween(_, _, _, _)
SlotsBetween(fs, cur, end, fuel) ==
    IF cur = end \/ fuel = 0 THEN <<cluster_offset(cur[1]) + cur[2]>>
    ELSE IF cur[2] + DIR_ENTRY_LEN < bytes_per_cluster
    THEN <<cluster_offset(cur[1]) + cur[2]>>
            \o SlotsBetween(fs, <<cur[1], cur[2] + DIR_ENTRY_LEN>>, end,
                            fuel - 1)
    ELSE IF get_entry(fs, cur[1]).t = "Next"
    THEN <<cluster_offset(cur[1]) + cur[2]>>
            \o SlotsBetween(fs, <<get_entry(fs, cur[1]).c, 0>>, end, fuel - 1)
    ELSE <<cluster_offset(cur[1]) + cur[2]>>

GroupOf(fs, e) ==
    IF get_dir_range(e).k = "some"
    THEN SlotsBetween(fs, get_dir_range(e).v[1], get_dir_range(e).v[2],
                      DirFuel)
    ELSE <<>>

\* the slots of a directory along its cluster chain, and those of them that
\* hold a short entry that is not deleted, before the end marker
DirSlots(fs, dir) ==
    [k \in 1..(Len(ChainOf(fs, dir.first_cluster)) * bytes_per_cluster) |->
        cluster_offset(ChainOf(fs, dir.first_cluster)
                           [(k - 1) \div bytes_per_cluster + 1])
            + ((k - 1) % bytes_per_cluster)]
LiveSlots(fs, slots) ==
    {k \in 1..Len(slots) :
        /\ fs.disk[slots[k]].k = "sfn"
        /\ first_byte(fs.disk[slots[k]]) # 229
        /\ \A j \in 1..k : first_byte(fs.disk[slots[j]]) # 0}
\* directory e holds a live entry other than . and ..
HoldsEntries(fs, e) ==
    /\ e.kind = "Dir"
    /\ \E k \in LiveSlots(fs, DirSlots(fs, e)) :
          ~IsDotName(name_to_string(fs.disk[DirSlots(fs, e)[k]]))

\* unlink and rmdir: Dir::remove from the root
RemoveDone(path, pre, r) ==
    /\ pre.st = "ok"
    /\ Commit(r.fs)
    /\ last' = [op |-> "remove", path |-> path, st |-> r.st,
                entry |-> pre.v,
                v |-> r.v,
                unchanged |-> r.fs = FS,
                nonempty |-> HoldsEntries(FS, pre.v),
                group |-> GroupOf(FS, pre.v),
                after_create |->
                    /\ last.op \in {"create_file", "create_dir"}
                    /\ last.st = "ok" /\ last.path = path
                    /\ ~last.existed,
                pre_free |-> IF last.op \in {"create_file", "create_dir"}
                             THEN last.pre_free ELSE 0,
                pre_alloc |-> IF last.op \in {"create_file", "create_dir"}
                              THEN last.pre_alloc ELSE {}]
    /\ UNCHANGED <<info_disk, files>>
    /\ nops' = nops + 1

Remove(path) ==
    /\ Running
    /\ RemoveDone(path, get_entry_abs(path, FS), remove(root_dir, path, FS))

\* the source as the directory holds it before the call
SrcLive(src, pre) ==
    /\ pre.st = "ok"
    /\ pre.v.kind = src.kind
    /\ pre.v.first_cluster = src.first_cluster
    /\ entry_size(pre.v) = entry_size(src)

\* frename: Dir::rename of the entry the resource holds; the resource keeps
\* the entry it had
RenameDone(h, dst_path, src, chain, r) ==
    /\ Commit(r.fs)
    /\ last' = [op |-> "rename", h |-> h, dst |-> dst_path, st |-> r.st,
                src |-> src,
                src_live |-> SrcLive(src, get_entry_abs(entry_dir_path(src),
                                                        FS)),
                pre_chain |-> chain,
                pre_fat |-> [i \in 1..Len(chain) |-> RawFat(FS, chain[i])],
                pre_data |-> IF src.kind = "File"
                             THEN read(src, size(src), FS, 0).v ELSE <<>>]
    /\ UNCHANGED <<info_disk, files>>
    /\ nops' = nops + 1

Rename(h, dst_path) ==
    /\ Running
    /\ files[h] # None
    /\ RenameDone(h, dst_path, files[h], ChainOf(FS, files[h].first_cluster),
                  rename(files[h], dst_path, FS))

\* FileSystem::unmount, which ends the session
Unmount ==
    /\ last.st \notin {"panic", "hang"}
    /\ last.op # "unmount"
    /\ info_disk' = FsInfo_flush(fs_info)
    /\ Commit(set_hard_error_bit(set_clean_shut_bit(FS)))
    /\ last' = [op |-> "unmount", st |-> "ok"]
    /\ files' = [h \in Handles |-> None]
    /\ nops' = nops

Next ==
    \/ \E h \in Handles, p \in FilePaths : CreateFile(h, p)
    \/ \E p \in DirPaths : CreateDir(p)
    \/ \E h \in Handles, p \in AllPaths : Open(h, p)
    \/ \E h \in Handles : Close(h)
    \/ \E h \in Handles, off \in WriteOffsets, len \in WriteLens,
          pat \in DataPatterns : Write(h, off, len, pat)
    \/ \E h \in Handles, n \in TruncateSizes : Truncate(h, n)
    \/ \E p \in AllPaths : Remove(p)
    \/ \E h \in Handles, p \in AllPaths : Rename(h, p)
    \/ Unmount

Spec == Init /\ [][Next]_vars

(***************************************************************************)
(* The live entries of the volume: what iterating the directories from the *)
(* root yields, the `.` and `..` entries aside.                            *)
(***************************************************************************)
TreeDepth == 3

NotDotEntry(e) == ~IsDotName(short_name(e))

RECURSIVE TreeEntries(_, _, _)
RECURSIVE SubTrees(_, _, _, _)
RECURSIVE TreeBelow(_, _, _)
TreeEntries(fs, dir, depth) ==
    TreeBelow(fs, SelectSeq(Dir_entries(fs, dir), NotDotEntry), depth)
TreeBelow(fs, es, depth) == es \o SubTrees(fs, es, 1, depth)
SubTrees(fs, es, i, depth) ==
    IF i > Len(es) \/ depth = 0 THEN <<>>
    ELSE (IF entry_is_dir(es[i]) THEN TreeEntries(fs, es[i], depth - 1)
          ELSE <<>>)
            \o SubTrees(fs, es, i + 1, depth)

LiveEntries == TreeEntries(FS, root_dir, TreeDepth)

CeilDiv(a, b) == (a + b - 1) \div b

(***************************************************************************)
(* Specifications of parts of the interface.                               *)
(***************************************************************************)
\* one file, through one handle: create_file, write and truncate
NextFile ==
    \/ CreateFile(1, <<NameA>>)
    \/ \E off \in WriteOffsets, len \in WriteLens, pat \in DataPatterns :
          Write(1, off, len, pat)
    \/ \E n \in TruncateSizes : Truncate(1, n)

SpecFile == Init /\ [][NextFile]_vars

\* the entries of the root directory: create_file, create_dir and remove of
\* one-slot-pair names and of a name that takes LongNameLen characters
LongNameLen == 196
LongName == [i \in 1..LongNameLen |-> 108]
DirFileNames == {<<NameA>>, <<NameB>>, <<LongName>>}

NextDir ==
    \/ \E h \in Handles, p \in DirFileNames : CreateFile(h, p)
    \/ \E p \in DirPaths : CreateDir(p)
    \/ \E p \in DirFileNames \cup DirPaths : Remove(p)
    \/ \E h \in Handles : Close(h)

SpecDir == Init /\ [][NextDir]_vars

\* directory images, well formed or not: the root directory's one cluster
\* is filled with any records of ImageCells, then iterated
ImageSfn ==
    [ShortDirEntryDefault EXCEPT
        !.dir_name = [i \in 1..11 |-> IF i = 1 THEN 65 ELSE PADDING],
        !.file_attrs = ARCHIVE]
ImageOrds == {1, 65, 66}          \* 1, 1|0x40, 2|0x40
ImageChecksums == {compute_checksum(ImageSfn), 0}
ImageCells ==
    {ZeroCell, FreeMarker, ImageSfn}
        \cup {LongDirEntry_new(o, [i \in 1..LFN_PART_LEN |-> 120], c) :
                 o \in ImageOrds, c \in ImageChecksums}

InitImage ==
    /\ fat = [c \in 0..MaxCluster |->
                 IF c = 0 THEN FAT_EOC_MIN
                 ELSE IF c = 1 \/ c = root_cluster THEN FAT_EOC
                 ELSE 0]
    /\ \E img \in [0..(bytes_per_cluster - 1) -> ImageCells] :
          disk = [a \in 0..(DiskEnd - 1) |->
                     IF a < first_data_offset THEN MetaCell
                     ELSE IF a < first_data_offset + bytes_per_cluster
                     THEN img[a - first_data_offset]
                     ELSE ZeroCell]
    /\ fs_info = [free_count |-> MaxCluster - RESERVED_CLUSTERS,
                  next_free |-> RESERVED_CLUSTERS]
    /\ info_disk = [free_count |-> MaxCluster - RESERVED_CLUSTERS,
                    next_free |-> RESERVED_CLUSTERS]
    /\ files = [h \in Handles |-> None]
    /\ last = [op |-> "mount", st |-> "ok"]
    /\ nops = 0
    /\ server = ServerOff
    /\ bpb = Fat32Bpb
    /\ fat_region = <<>>

\* readdir of the root: Dir::to_iter run to its end
IterateRoot ==
    /\ last.op = "mount"
    /\ last' = [op |-> "iterate", st |-> "ok",
                entries |-> Dir_entries(FS, root_dir)]
    /\ nops' = nops + 1
    /\ UNCHANGED <<fat, disk, fs_info, info_disk, files, bpb, server,
                   fat_region>>

NextImage == IterateRoot

SpecImage == InitImage /\ [][NextImage]_vars

\* short names: create_file and remove of names of the root directory that
\* do not fit 8.3 or that end in the same character
NameV1 ==       \* verylongfilename.dat
    <<118, 101, 114, 121, 108, 111, 110, 103, 102, 105, 108, 101, 110, 97,
      109, 101, 46, 100, 97, 116>>
NameV2 ==       \* verylongfilename2.dat
    <<118, 101, 114, 121, 108, 111, 110, 103, 102, 105, 108, 101, 110, 97,
      109, 101, 50, 46, 100, 97, 116>>
NameAB == <<97, 98>>
NameCB == <<99, 98>>
ShortFileNames == {<<NameV1>>, <<NameV2>>, <<NameAB>>, <<NameCB>>}

NameDB == <<100, 98>>
ShortDirNames == {<<NameCB>>, <<NameDB>>}

NextShort ==
    \/ \E h \in Handles, p \in ShortFileNames : CreateFile(h, p)
    \/ \E p \in ShortDirNames : CreateDir(p)
    \/ \E h \in Handles, p \in ShortDirNames : Open(h, p)
    \/ \E h \in Handles, p \in ShortDirNames : Rename(h, p)
    \/ \E p \in ShortFileNames : Remove(p)
    \/ \E h \in Handles : Close(h)

SpecShort == Init /\ [][NextShort]_vars

\* a subdirectory and its entries: create_dir of d, create_file and remove
\* below d, remove of d
SubPaths == {<<NameD, LongName>>, <<NameD, NameA>>, <<NameD, NameB>>}

NextSub ==
    \/ \E h \in Handles, p \in SubPaths : CreateFile(h, p)
    \/ CreateDir(<<NameD>>)
    \/ \E p \in SubPaths \cup {<<NameD>>} : Remove(p)
    \/ \E h \in Handles : Close(h)

SpecSub == Init /\ [][NextSub]_vars

\* the allocator alone: a volume whose clusters above the root are free or
\* hold one-cluster chains, with the FSInfo hint anywhere, and calls of
\* allocate_cluster with no previous cluster
AllocHints == {RESERVED_CLUSTERS, MaxCluster - 1, MaxCluster}
UnusedIn(fs) ==
    {c \in RESERVED_CLUSTERS..MaxCluster : get_entry(fs, c) = Unused}

InitAlloc ==
    /\ \E f \in [(root_cluster + 1)..MaxCluster -> {0, FAT_EOC}],
          hint \in AllocHints :
          \E count \in {Cardinality({c \in DOMAIN f : f[c] = 0}),
                        U32_UNKNOWN} :
          /\ fat = [c \in 0..MaxCluster |->
                       IF c = 0 THEN FAT_EOC_MIN
                       ELSE IF c = 1 \/ c = root_cluster THEN FAT_EOC
                       ELSE f[c]]
          /\ fs_info = [free_count |-> count, next_free |-> hint]
          /\ info_disk = [free_count |-> count, next_free |-> hint]
    /\ disk = [a \in 0..(DiskEnd - 1) |->
                  IF a < first_data_offset THEN MetaCell ELSE ZeroCell]
    /\ files = [h \in Handles |-> None]
    /\ last = [op |-> "mount", st |-> "ok"]
    /\ nops = 0
    /\ server = ServerOff
    /\ bpb = Fat32Bpb
    /\ fat_region = <<>>

AllocateDone(prev, r) ==
    /\ Commit(r.fs)
    /\ last' = [op |-> "allocate", st |-> r.st, v |-> r.v, prev |-> prev,
                pre_unused |-> UnusedIn(FS), pre_fat |-> fat,
                pre_info |-> fs_info, pre_disk |-> disk]
    /\ UNCHANGED <<info_disk, files>>
    /\ nops' = nops + 1
Allocate ==
    /\ Running
    /\ AllocateDone(None, allocate_cluster(FS, None))
\* the callers that extend a chain pass its last cluster
AllocateAfter(prev) ==
    /\ Running
    /\ get_entry(FS, prev) = EndOfChain
    /\ AllocateDone(Some(prev), allocate_cluster(FS, Some(prev)))

NextAlloc ==
    \/ Allocate
    \/ \E prev \in Clusters : AllocateAfter(prev)

SpecAlloc == InitAlloc /\ [][NextAlloc]_vars

(***************************************************************************)
(* table.rs: the entry codec, byte by byte.  fat_region holds the bytes of *)
(* all FATs of the volume, counted from the first FAT sector, so that the  *)
(* reserved sectors before it are 0 and the active FAT is the first one.   *)
(***************************************************************************)
TableBytesPerSec == 8      \* bytes of a sector of the volume
TableFatSize == 4          \* sectors of one FAT
TableMaxCluster == 7       \* max_cluster_number of the volume
TableFill == {0, 90, 255}  \* the byte that fills the FAT region at first
FatTypes == {"FAT12", "FAT16", "FAT32"}
TableEntries ==
    {Unused, Bad, EndOfChain}
        \cup {NextC(d) : d \in RESERVED_CLUSTERS..TableMaxCluster}

fat_size(b) == TableFatSize
mirroring_enabled(b) == b.fat_type = "FAT32" /\ b.mirroring
fat_start_sector(b) == 0 * fat_size(b)

get_fat_offset(fat_type, cluster, start_sector, bytes_per_sec) ==
    LET fat_offset == CASE fat_type = "FAT12" -> cluster + (cluster \div 2)
                        [] fat_type = "FAT16" -> cluster * 2
                        [] OTHER -> cluster * 4
    IN  (start_sector + (fat_offset \div bytes_per_sec)) * bytes_per_sec
            + (fat_offset % bytes_per_sec)

\* little-endian reads and writes of the cursor
ByteAt(bytes, a) == IF a \in DOMAIN bytes THEN bytes[a] ELSE 0
read_u16(bytes, a) == ByteAt(bytes, a) + 256 * ByteAt(bytes, a + 1)
\* read_u32 & 0x0FFFFFFF
read_u28(bytes, a) ==
    ByteAt(bytes, a) + 256 * ByteAt(bytes, a + 1)
        + 65536 * ByteAt(bytes, a + 2)
        + 16777216 * (ByteAt(bytes, a + 3) % 16)
write_u16(bytes, a, v) ==
    [x \in DOMAIN bytes |->
        IF x = a THEN v % 256
        ELSE IF x = a + 1 THEN (v \div 256) % 256
        ELSE bytes[x]]
\* write_u32 of raw | old_bits, old_bits the top four bits stored at a
write_u28(bytes, a, raw) ==
    [x \in DOMAIN bytes |->
        IF x = a THEN raw % 256
        ELSE IF x = a + 1 THEN (raw \div 256) % 256
        ELSE IF x = a + 2 THEN (raw \div 65536) % 256
        ELSE IF x = a + 3
        THEN (raw \div 16777216) + 16 * (ByteAt(bytes, a + 3) \div 16)
        ELSE bytes[x]]

\* get_entry over the bytes
decode_entry(entry, bad, eoc_min) ==
    IF entry = 0 THEN Unused
    ELSE IF entry = bad THEN Bad
    ELSE IF entry >= eoc_min THEN EndOfChain
    ELSE NextC(entry)
table_get_entry_at(b, bytes, cluster, offset) ==
    CASE b.fat_type = "FAT12" ->
            decode_entry(IF cluster % 2 = 1
                         THEN read_u16(bytes, offset) \div 16
                         ELSE read_u16(bytes, offset) % 4096,
                         4087, 4088)
      [] b.fat_type = "FAT16" ->
            decode_entry(read_u16(bytes, offset), 65527, 65528)
      [] OTHER ->
            IF cluster >= FAT_BAD /\ cluster <= FAT_EOC THEN Bad
            ELSE decode_entry(read_u28(bytes, offset), FAT_BAD, FAT_EOC_MIN)
table_get_entry(b, bytes, cluster) ==
    table_get_entry_at(b, bytes, cluster,
                       get_fat_offset(b.fat_type, cluster,
                                      fat_start_sector(b), TableBytesPerSec))

\* set_entry over the bytes
raw_val(fat_entry, bad, eoc) ==
    CASE fat_entry.t = "Unused" -> 0
      [] fat_entry.t = "Bad" -> bad
      [] fat_entry.t = "EndOfChain" -> eoc
      [] OTHER -> fat_entry.c
\* a write of the first copy that stores the value alone
set_entry_fats_clear(b, bytes, fat_offset, raw, i, bound) ==
    [x \in DOMAIN bytes |->
        IF x = fat_offset THEN raw % 256
        ELSE IF x = fat_offset + 1 THEN (raw \div 256) % 256
        ELSE IF x = fat_offset + 2 THEN (raw \div 65536) % 256
        ELSE IF x = fat_offset + 3 THEN raw \div 16777216
        ELSE bytes[x]]

RECURSIVE set_entry_fats(_, _, _, _, _, _)
set_entry_fats(b, bytes, fat_offset, raw, i, bound) ==
    IF i >= bound THEN bytes
    ELSE set_entry_fats(b,
                        write_u28(bytes, fat_offset + i * fat_size(b), raw),
                        fat_offset, raw, i + 1, bound)
table_set_entry_at(b, bytes, cluster, fat_entry, fat_offset) ==
    CASE b.fat_type = "FAT12" ->
            write_u16(bytes, fat_offset,
                      IF cluster % 2 = 1
                      THEN (read_u16(bytes, fat_offset) % 16)
                              + ((raw_val(fat_entry, 4087, 4095) * 16) % 65536)
                      ELSE (read_u16(bytes, fat_offset) \div 4096) * 4096
                              + raw_val(fat_entry, 4087, 4095))
      [] b.fat_type = "FAT16" ->
            write_u16(bytes, fat_offset, raw_val(fat_entry, 65527, 65535))
      [] OTHER ->
            set_entry_fats(b, bytes, fat_offset,
                           raw_val(fat_entry, FAT_BAD, FAT_EOC), 0,
                           IF mirroring_enabled(b) THEN 1 ELSE b.num_fats)
table_set_entry(b, bytes, cluster, fat_entry) ==
    table_set_entry_at(b, bytes, cluster, fat_entry,
                       get_fat_offset(b.fat_type, cluster,
                                      fat_start_sector(b), TableBytesPerSec))

\* the codec alone: a volume of each FAT type, FAT32 with and without
\* mirroring, its FAT region filled with one byte, and one set_entry
InitTable ==
    /\ \E t \in FatTypes, m \in BOOLEAN, fill \in TableFill :
          /\ server = ServerOff
          /\ bpb = [fat_type |-> t, num_fats |-> 2,
                    mirroring |-> t = "FAT32" /\ m]
          /\ fat_region = [a \in 0..(2 * TableFatSize * TableBytesPerSec - 1)
                              |-> fill]
    /\ fat = [c \in 0..MaxCluster |->
                 IF c = 0 THEN FAT_EOC_MIN
                 ELSE IF c = 1 \/ c = root_cluster THEN FAT_EOC
                 ELSE 0]
    /\ disk = [a \in 0..(DiskEnd - 1) |->
                  IF a < first_data_offset THEN MetaCell ELSE ZeroCell]
    /\ fs_info = [free_count |-> MaxCluster - RESERVED_CLUSTERS,
                  next_free |-> RESERVED_CLUSTERS]
    /\ info_disk = [free_count |-> MaxCluster - RESERVED_CLUSTERS,
                    next_free |-> RESERVED_CLUSTERS]
    /\ files = [h \in Handles |-> None]
    /\ last = [op |-> "mount", st |-> "ok"]
    /\ nops = 0

\* get_entry_raw over the bytes
table_get_entry_raw(b, bytes, cluster, offset) ==
    CASE b.fat_type = "FAT12" ->
            IF cluster % 2 = 1 THEN read_u16(bytes, offset) \div 16
            ELSE read_u16(bytes, offset) % 4096
      [] b.fat_type = "FAT16" -> read_u16(bytes, offset)
      [] OTHER -> read_u28(bytes, offset)
EntryOffset(b, cluster) ==
    get_fat_offset(b.fat_type, cluster, fat_start_sector(b), TableBytesPerSec)

\* a flag update that inverts the bit instead of setting it
FlipBit(x, b) == IF (x \div b) % 2 = 1 THEN x - b ELSE x + b
table_set_bit_flip(b, bytes, bit32, bit16) ==
    CASE b.fat_type = "FAT32" ->
            table_set_entry(b, bytes, 1,
                NextC(FlipBit(table_get_entry_raw(b, bytes, 1,
                                                  EntryOffset(b, 1)), bit32)))
      [] b.fat_type = "FAT16" ->
            table_set_entry(b, bytes, 1,
                NextC(FlipBit(table_get_entry_raw(b, bytes, 1,
                                                  EntryOffset(b, 1)), bit16)))
      [] OTHER -> bytes

\* set_clean_shut_bit and set_hard_error_bit over the bytes, and the two of
\* them as unmount calls them
table_set_bit(b, bytes, bit32, bit16) ==
    CASE b.fat_type = "FAT32" ->
            table_set_entry(b, bytes, 1,
                NextC(SetBit(table_get_entry_raw(b, bytes, 1,
                                                 EntryOffset(b, 1)), bit32)))
      [] b.fat_type = "FAT16" ->
            table_set_entry(b, bytes, 1,
                NextC(SetBit(table_get_entry_raw(b, bytes, 1,
                                                 EntryOffset(b, 1)), bit16)))
      [] OTHER -> bytes
table_unmount(b, bytes) ==
    table_set_bit(b, table_set_bit(b, bytes, CLEAN_SHUT_BIT, 32768),
                  HARD_ERROR_BIT, 16384)

\* the top four bits of the stored FAT32 entry of cluster
HighBits(b, bytes, cluster) ==
    ByteAt(bytes, EntryOffset(b, cluster) + 3) \div 16

TableOps == 2          \* calls made on the table in one behaviour

SetEntry(c, v) ==
    /\ nops < TableOps
    /\ fat_region' = table_set_entry(bpb, fat_region, c, v)
    /\ last' = [op |-> "set_entry", st |-> "ok", cluster |-> c, v |-> v,
                pre |-> [x \in RESERVED_CLUSTERS..TableMaxCluster |->
                            table_get_entry(bpb, fat_region, x)],
                pre_high |-> HighBits(bpb, fat_region, c),
                pre_region |-> fat_region]
    /\ nops' = nops + 1
    /\ UNCHANGED <<fat, disk, fs_info, info_disk, files, bpb, server>>

\* FileSystem::unmount on the encoded table; the FSInfo sector exists on
\* FAT32 only
TableUnmount ==
    /\ nops < TableOps
    /\ fat_region' = table_unmount(bpb, fat_region)
    /\ info_disk' = IF bpb.fat_type = "FAT32" THEN FsInfo_flush(fs_info)
                    ELSE info_disk
    /\ last' = [op |-> "unmount", st |-> "ok", cluster |-> 1,
                pre_region |-> fat_region, pre_info |-> info_disk,
                pre_raw |-> table_get_entry_raw(bpb, fat_region, 1,
                                                EntryOffset(bpb, 1)),
                pre_high |-> HighBits(bpb, fat_region, 1),
                again |-> last.op = "unmount"]
    /\ nops' = nops + 1
    /\ UNCHANGED <<fat, disk, fs_info, files, bpb, server>>

NextTable ==
    \/ \E c \in RESERVED_CLUSTERS..TableMaxCluster, v \in TableEntries :
          SetEntry(c, v)
    \/ TableUnmount

SpecTable == InitTable /\ [][NextTable]_vars

(***************************************************************************)
(* Properties.                                                             *)
(***************************************************************************)

\* C1: File::write(buf, off) returns len(buf), and a File::read of len(buf)
\* bytes at off on the same file then returns exactly buf, at every
\* alignment of off and len(buf) to the cluster and block boundaries.
C1_ReadAfterWrite ==
    last.op = "write" =>
        /\ last.st = "ok"
        /\ last.v = Len(last.buf)
        /\ read(files[last.h], Len(last.buf), FS, last.offset)
               = [st |-> "ok", v |-> last.buf]

\* C2: after any sequence of create_file, write and truncate, every live
\* file has file_size <= (clusters in its chain) * bytes_per_cluster, also
\* after a write that grows a file whose size is an exact non-zero multiple
\* of bytes_per_cluster.
C2_SizeWithinChain ==
    \A i \in 1..Len(LiveEntries) :
        LET e == LiveEntries[i]
        IN  e.kind = "File" =>
                size(e) <= Len(ChainOf(FS, e.first_cluster)) * bytes_per_cluster

\* C3: a successful Dir::rename(src, dst) of a live entry to another path
\* leaves the FAT entry of every cluster of the source chain unchanged; dst
\* then resolves to an entry with the first cluster and size src had, its
\* data reads back as before, and the source path no longer resolves.
C3_RenameKeepsChain ==
    (/\ last.op = "rename" /\ last.st = "ok" /\ last.src_live
     /\ last.dst # entry_dir_path(last.src)) =>
        /\ \A i \in 1..Len(last.pre_chain) :
               RawFat(FS, last.pre_chain[i]) = last.pre_fat[i]
        /\ LET d == get_entry_abs(last.dst, FS)
           IN  /\ d.st = "ok"
               /\ d.v.first_cluster = last.src.first_cluster
               /\ entry_size(d.v) = entry_size(last.src)
               /\ d.v.kind = "File" =>
                      read(d.v, size(last.src), FS, 0)
                          = [st |-> "ok", v |-> last.pre_data]
        /\ get_entry_abs(entry_dir_path(last.src), FS).st # "ok"

\* C4: in every state reached by create, write, truncate, remove and rename
\* from a well-formed volume, the FAT walk from the first cluster of the
\* root and of every live file or directory is finite and ends at an
\* EndOfChain entry: no cycle, and no Unused or Bad entry inside the chain.
C4_ChainsEndInEOC ==
    /\ WellFormedChain(FS, root_cluster)
    /\ \A i \in 1..Len(LiveEntries) :
           LiveEntries[i].first_cluster >= RESERVED_CLUSTERS =>
               WellFormedChain(FS, LiveEntries[i].first_cluster)

\* C5: in every reachable state, also after writes through several open
\* handles, no two live directory entries other than "." and ".." have the
\* same first cluster >= 2.
C5_NoSharedFirstCluster ==
    \A i, j \in 1..Len(LiveEntries) :
        (i # j /\ LiveEntries[i].first_cluster >= RESERVED_CLUSTERS) =>
            LiveEntries[i].first_cluster # LiveEntries[j].first_cluster

\* C6: File::truncate(new_size) with 0 < new_size < file_size on a file
\* whose chain is well formed leaves exactly ceil(new_size /
\* bytes_per_cluster) clusters in the chain, the last of them marked
\* EndOfChain, every removed cluster Unused, and the free count larger by
\* exactly the number of removed clusters.
C6_TruncateShrinksChain ==
    (/\ last.op = "truncate" /\ last.st = "ok"
     /\ 0 < last.new_size /\ last.new_size < last.pre_size
     /\ last.pre_wf
     /\ Len(last.pre_chain) = CeilDiv(last.pre_size, bytes_per_cluster)) =>
        LET keep == CeilDiv(last.new_size, bytes_per_cluster)
            chain == ChainOf(FS, files[last.h].first_cluster)
        IN  /\ chain = SubSeq(last.pre_chain, 1, keep)
            /\ get_entry(FS, last.pre_chain[keep]).t = "EndOfChain"
            /\ \A i \in (keep + 1)..Len(last.pre_chain) :
                   get_entry(FS, last.pre_chain[i]).t = "Unused"
            /\ fs_info.free_count
                   = last.pre_free + (Len(last.pre_chain) - keep)

\* C7: on a volume mounted with an accurate FSInfo free count, after any
\* sequence of operations followed by unmount() the free count stored in
\* the FSInfo sector equals what a fresh scan of the FAT counts.
C7_FreeCountAccurate ==
    last.op = "unmount" =>
        info_disk.free_count = get_free_count(FS, MaxCluster)

\* C8: for a path p that does not exist, create_file(p) or create_dir(p)
\* followed by remove(p) restores the count of free clusters and the set
\* of allocated clusters, also when the parent directory had to be
\* extended to hold the entry.
C8_CreateRemoveRestores ==
    (last.op = "remove" /\ last.st = "ok" /\ last.after_create) =>
        /\ get_free_count(FS, MaxCluster) = last.pre_free
        /\ Allocated(FS) = last.pre_alloc

\* C9: after a successful remove(p) the first byte of every 32-byte slot
\* of p's entry group is 0xE5 and p resolves neither by its long name nor
\* by its short name, for groups of one slot up to 20 LFN slots and the
\* SFN slot.
C9_RemoveFreesGroup ==
    (last.op = "remove" /\ last.st = "ok") =>
        /\ \A i \in 1..Len(last.group) :
               first_byte(disk[last.group[i]]) = 229
        /\ get_entry_abs(last.path, FS).st # "ok"
        /\ get_entry_abs(SubSeq(last.path, 1, Len(last.path) - 1)
                             \o <<short_name(last.entry)>>, FS).st # "ok"

\* C10: a successful create of a new name of 1..255 characters writes
\* num_lfn + 1 contiguous slots, the LFN slots with ordinals N|0x40 down to
\* 1 and each with the checksum of the SFN, then the SFN slot, and the
\* directory iteration then yields an entry with exactly the requested
\* name, also when the run ends in the last slot of the last cluster.
C10_CreateWritesGroup ==
    (/\ last.op \in {"create_file", "create_dir"}
     /\ last.st = "ok" /\ ~last.existed) =>
        LET name == last.path[Len(last.path)]
            n == num_entries(name)
            slots == GroupOf(FS, last.entry)
        IN  /\ Len(slots) = n + 1
            /\ disk[slots[n + 1]].k = "sfn"
            /\ \A j \in 1..n :
                   /\ disk[slots[j]].k = "lfn"
                   /\ disk[slots[j]].ord
                          = (n - j + 1) + (IF j = 1 THEN 64 ELSE 0)
                   /\ disk[slots[j]].chksum
                          = compute_checksum(disk[slots[n + 1]])
            /\ \E i \in 1..Len(LiveEntries) :
                   /\ entry_dir_path(LiveEntries[i]) = last.path
                   /\ entry_name(LiveEntries[i]) = name

\* C11: after a write or truncate has completed through one handle, every
\* other handle open on the same live file observes the resulting size and
\* first cluster (fstat) and reads the resulting contents.
C11_HandlesShareState ==
    (last.op \in {"write", "truncate"} /\ last.st = "ok") =>
        \A h2 \in Handles :
            (/\ files[h2] # None
             /\ files[h2].kind = "File"
             /\ files[h2].file_path = files[last.h].file_path
             /\ files[h2].loc = files[last.h].loc
             /\ get_entry_abs(files[h2].file_path, FS).st = "ok") =>
                /\ size(files[h2]) = size(files[last.h])
                /\ files[h2].first_cluster = files[last.h].first_cluster
                /\ read(files[h2], size(files[last.h]), FS, 0)
                       = read(files[last.h], size(files[last.h]), FS, 0)

\* C12: for every directory image, malformed ones included, each entry the
\* iteration emits with a long name is built from LFN records whose
\* ordinals, in physical order, are n|0x40, n-1, ..., 1 and which all carry
\* the checksum of the 11-byte name of the SFN that follows them.
C12_EmittedGroupsWellFormed ==
    last.op = "iterate" =>
        \A i \in 1..Len(last.entries) :
            LET e == last.entries[i]
                slots == GroupOf(FS, e)
                n == Len(slots) - 1
            IN  n > 0 =>
                    /\ disk[slots[n + 1]].k = "sfn"
                    /\ \A j \in 1..n :
                          /\ disk[slots[j]].k = "lfn"
                          /\ disk[slots[j]].ord
                                 = (n - j + 1) + (IF j = 1 THEN 64 ELSE 0)
                          /\ disk[slots[j]].chksum
                                 = compute_checksum(disk[slots[n + 1]])

\* the name the 8.3 rule gives: 6 characters of the upper-cased basename,
\* ~N, and 3 characters of the upper-cased extension, space padded
NumericTail(name, N) ==
    LET idx == RFindDot(name, Len(name))
        base == UpperName(IF idx > 0 THEN SubSeq(name, 1, idx - 1) ELSE name)
        ext == UpperName(IF idx > 0 THEN SubSeq(name, idx + 1, Len(name))
                         ELSE <<>>)
        b8 == SubSeq(base, 1, Min(6, Len(base))) \o <<TILDE, 48 + N>>
        e3 == SubSeq(ext, 1, Min(3, Len(ext)))
    IN  [i \in 1..11 |->
            IF i <= 8 THEN (IF i <= Len(b8) THEN b8[i] ELSE PADDING)
            ELSE IF i - 8 <= Len(e3) THEN e3[i - 8] ELSE PADDING]
LongBasename(name) ==
    LET idx == RFindDot(name, Len(name))
    IN  (IF idx > 0 THEN idx - 1 ELSE Len(name)) > 8

\* C13: for a new long name that does not fit 8.3 the short name written is
\* the first 6 characters of the upper-cased basename, ~N and the first 3
\* characters of the upper-cased extension, N the smallest of 1..9 that no
\* sibling with that prefix and extension uses.
C13_NumericTailShortName ==
    (/\ last.op = "create_file" /\ last.st = "ok" /\ ~last.existed
     /\ LongBasename(last.path[Len(last.path)])
     /\ \E N \in 1..9 :
           NumericTail(last.path[Len(last.path)], N) \notin last.pre_short) =>
        \E N \in 1..9 :
            /\ short_name_raw(last.entry)
                   = NumericTail(last.path[Len(last.path)], N)
            /\ NumericTail(last.path[Len(last.path)], N) \notin last.pre_short
            /\ \A M \in 1..(N - 1) :
                   NumericTail(last.path[Len(last.path)], M) \in last.pre_short

\* the directories of the tree: the root and every live directory entry
LiveDirs ==
    {root_dir} \cup {LiveEntries[i] : i \in {j \in 1..Len(LiveEntries) :
                                              entry_is_dir(LiveEntries[j])}}
DistinctShortNames(fs, slots) ==
    \A i, j \in LiveSlots(fs, slots) :
        i # j => fs.disk[slots[i]].dir_name # fs.disk[slots[j]].dir_name

DotEntries(fs, e, slots, parent_cluster) ==
    /\ Len(slots) >= 2
    /\ fs.disk[slots[1]].k = "sfn"
    /\ fs.disk[slots[1]].dir_name = [k \in 1..11 |-> IF k = 1 THEN DOT
                                                     ELSE PADDING]
    /\ fs.disk[slots[1]].fc = e.first_cluster
    /\ fs.disk[slots[2]].k = "sfn"
    /\ fs.disk[slots[2]].dir_name = [k \in 1..11 |-> IF k <= 2 THEN DOT
                                                     ELSE PADDING]
    /\ fs.disk[slots[2]].fc = parent_cluster
ParentCluster(fs, path) ==
    IF Len(path) <= 1 THEN 0 ELSE ParentOf(path, fs).v.first_cluster

\* C15: every directory other than the root starts with . naming its own
\* first cluster and .. naming its parent's first cluster, 0 when the parent
\* is the root.
C15_DotEntries ==
    \A i \in 1..Len(LiveEntries) :
        entry_is_dir(LiveEntries[i]) =>
            DotEntries(FS, LiveEntries[i], DirSlots(FS, LiveEntries[i]),
                       ParentCluster(FS, entry_dir_path(LiveEntries[i])))

C17_RemoveNonEmptyFails ==
    (last.op = "remove" /\ last.nonempty) =>
        /\ last.st = "err"
        /\ last.v = "Directory not empty"
        /\ last.unchanged

\* C18: a write or a create that fails because the allocator finds no free
\* cluster leaves the set of allocated clusters and the free count as they
\* were before the operation.
C18_NoSpaceReleases ==
    (/\ last.op \in {"write", "create_file", "create_dir"}
     /\ last.st = "err"
     /\ last.err = "Space Exhausted on Disk") =>
        /\ Allocated(FS) = last.pre_alloc
        /\ get_free_count(FS, MaxCluster) = last.pre_free

\* C19: allocate_cluster fails only when no entry of [2..max_cluster] is
\* Unused; when one is, wherever it lies, the call succeeds and returns a
\* cluster whose entry was Unused.
C19_AllocatesWhileFree ==
    last.op = "allocate" =>
        IF last.pre_unused = {}
        THEN last.st = "err"
        ELSE last.st = "ok" /\ last.v \in last.pre_unused

\* C20: on a volume of any FAT type, after set_entry(c, v) get_entry(c) is v
\* and get_entry of every other cluster is what it was.
C20_SetEntryRoundTrip ==
    last.op = "set_entry" =>
        \A x \in RESERVED_CLUSTERS..TableMaxCluster :
            table_get_entry(bpb, fat_region, x)
                = IF x = last.cluster THEN last.v ELSE last.pre[x]

\* C21: on FAT32 a write of an entry, by set_entry or by the flag updates of
\* unmount, leaves the top four bits of the stored entry as they were.
C21_HighBitsKept ==
    (bpb.fat_type = "FAT32" /\ last.op \in {"set_entry", "unmount"}) =>
        HighBits(bpb, fat_region, last.cluster) = last.pre_high

\* an entry whose top bits are set was written, by set_entry and by unmount
C21_HighBitsWritten ==
    /\ bpb.fat_type = "FAT32"
    /\ last.op = "unmount" /\ nops = TableOps
    /\ last.pre_high # 0
    /\ table_get_entry_raw(bpb, fat_region, 1, EntryOffset(bpb, 1))
           # last.pre_raw

\* the entry of cluster as FAT copy i stores it
EntryInCopy(b, bytes, cluster, i) ==
    table_get_entry_at(b, bytes, cluster,
                       EntryOffset(b, cluster)
                           + i * fat_size(b) * TableBytesPerSec)

\* C22: on FAT32 with mirroring on, set_entry(c, v) stores v in every FAT
\* copy; with mirroring off it changes the four bytes of c in the active FAT
\* and no other byte.
C22_MirrorsWritten ==
    (bpb.fat_type = "FAT32" /\ last.op = "set_entry") =>
        IF bpb.mirroring
        THEN \A i \in 0..(bpb.num_fats - 1) :
                 EntryInCopy(bpb, fat_region, last.cluster, i) = last.v
        ELSE \A a \in DOMAIN fat_region :
                 (a < EntryOffset(bpb, last.cluster)
                     \/ a > EntryOffset(bpb, last.cluster) + 3) =>
                     fat_region[a] = last.pre_region[a]

\* dst lies below the directory at path src
InsideSubtree(src, dst) ==
    /\ Len(dst) > Len(src)
    /\ SubSeq(dst, 1, Len(src)) = src

\* C23: renaming a live directory to a path inside its own subtree fails
\* with an error and leaves the FAT and the data region as they were.
C23_RenameIntoSelfRefused ==
    [][(/\ nops' = nops + 1
        /\ last'.op = "rename"
        /\ last'.src.kind = "Dir"
        /\ last'.src_live
        /\ InsideSubtree(entry_dir_path(last'.src), last'.dst))
           => (last'.st = "err" /\ disk' = disk /\ fat' = fat)]_vars

(***************************************************************************)
(* Dir::rename of the root directory, as frename calls it for a resource   *)
(* that holds the root.                                                    *)
(***************************************************************************)
RenameRootDone(dst_path, dst, r) ==
    /\ Commit(r.fs)
    /\ last' = [op |-> "rename_root", dst |-> dst_path, st |-> r.st,
                err |-> IF r.st = "err" THEN r.v ELSE "",
                dst_is_dir |-> dst.st = "ok" /\ entry_is_dir(dst.v),
                dst_absent |-> dst.st = "err",
                pre_disk |-> disk, pre_fat |-> fat]
    /\ UNCHANGED <<info_disk, files>>
    /\ nops' = nops + 1

RenameRoot(dst_path) ==
    /\ Running
    /\ RenameRootDone(dst_path, get_entry_abs(dst_path, FS),
                      rename(root_dir, dst_path, FS))

NextRoot ==
    \/ \E h \in Handles, p \in FilePaths : CreateFile(h, p)
    \/ \E p \in DirPaths : CreateDir(p)
    \/ \E h \in Handles : Close(h)
    \/ \E p \in AllPaths : RenameRoot(p)

SpecRoot == Init /\ [][NextRoot]_vars

\* C24: Dir::rename with the root directory as source fails with
\* PermissionDenied ("Cannot move root dir") and leaves the FAT and the data
\* region unchanged, whether the destination is absent or an existing
\* directory.
C24_RootRenameRefused ==
    (last.op = "rename_root" /\ (last.dst_is_dir \/ last.dst_absent)
        /\ (Len(last.dst) = 1 \/ last.dst_is_dir)) =>
        /\ last.st = "err"
        /\ last.err = "Cannot move root dir"
        /\ disk = last.pre_disk
        /\ fat = last.pre_fat

(***************************************************************************)
(* File::ensure_len and File::write near MAX_FILE_SIZE, on a volume with   *)
(* chain_len to spare: the chain of the file is kept as its length, every   *)
(* allocation succeeds, and cluster number n of the file exists when       *)
(* n < chain_len.                                                           *)
(***************************************************************************)
LimitOps == 3
LimitOffsets ==
    {0, bytes_per_cluster, MAX_FILE_SIZE - 2, MAX_FILE_SIZE - 1, MAX_FILE_SIZE}
LimitLens == {1, 2, bytes_per_cluster}

\* File::ensure_len: [st, f]
limit_ensure_len_grown(f, offset, extra_bytes, chain_len) ==
    IF offset > f.size
          /\ (f.size \div bytes_per_cluster >= chain_len
                 \/ offset \div bytes_per_cluster >= chain_len)
    THEN [st |-> "panic", f |-> [f EXCEPT !.clusters = chain_len]]
    ELSE [st |-> "ok",
          f |-> [size |-> f.size + extra_bytes, clusters |-> chain_len]]

limit_ensure_len_grow(f, offset, len, chain_len) ==
    LET bytes_remaining_cluster ==
            bytes_per_cluster - (f.size % bytes_per_cluster)
        extra_bytes == Min((offset + len) - f.size, MAX_FILE_SIZE - f.size)
    IN  limit_ensure_len_grown(
            f, offset, extra_bytes,
            IF bytes_remaining_cluster < extra_bytes
            THEN chain_len + (extra_bytes - bytes_remaining_cluster
                                + bytes_per_cluster - 1)
                                \div bytes_per_cluster
            ELSE chain_len)

limit_ensure_len(f, offset, len) ==
    IF offset + len <= f.size THEN [st |-> "ok", f |-> f]
    ELSE limit_ensure_len_grow(f, offset, len,
                               IF f.size = 0 THEN 1 ELSE f.clusters)

\* FileSystem::write_to of n bytes at offset co of a block: the count
limit_write_to(co, n) ==
    IF n = 0 THEN 0 ELSE Min(BLOCK_SIZE - co, n)

\* the loop of File::write: the count written
RECURSIVE limit_write_loop(_, _, _, _, _)
limit_write_chunk(chain_len, cc, co, written, len) ==
    written + limit_write_to(co, Min(bytes_per_cluster - co, len - written))
limit_write_loop(chain_len, cc, co, written, len) ==
    IF co >= bytes_per_cluster /\ cc + 1 >= chain_len THEN written
    ELSE IF co >= bytes_per_cluster
    THEN limit_write_loop(chain_len, cc + 1, co % bytes_per_cluster,
                          written, len)
    ELSE IF limit_write_chunk(chain_len, cc, co, written, len) = len
    THEN len
    ELSE limit_write_loop(
             chain_len, cc,
             co + limit_write_chunk(chain_len, cc, co, written, len) - written,
             limit_write_chunk(chain_len, cc, co, written, len), len)

\* File::write: [st, f, v]
limit_write_ensured(offset, len, en) ==
    IF en.st # "ok" THEN [st |-> en.st, f |-> en.f, v |-> 0]
    ELSE IF offset \div bytes_per_cluster >= en.f.clusters
    THEN [st |-> "ok", f |-> en.f, v |-> 0]
    ELSE [st |-> "ok", f |-> en.f,
          v |-> limit_write_loop(en.f.clusters, offset \div bytes_per_cluster,
                                 offset % bytes_per_cluster, 0, len)]

limit_write(f, offset, len) ==
    limit_write_ensured(offset, len, limit_ensure_len(f, offset, len))

InitLimit ==
    /\ Init
    /\ files[1] = None

\* the file of the behaviour: its size and the length of its chain
LimitFile == IF last.op = "limit_write" THEN last.f
             ELSE [size |-> 0, clusters |-> 0]

LimitWriteDone(offset, len, r) ==
    /\ last' = [op |-> "limit_write", st |-> r.st, f |-> r.f, v |-> r.v,
                offset |-> offset, len |-> len, pre_size |-> LimitFile.size]
    /\ nops' = nops + 1
    /\ UNCHANGED <<fat, disk, fs_info, info_disk, files, bpb, server, fat_region>>

LimitWrite(offset, len) ==
    /\ nops < LimitOps
    /\ last.st = "ok"
    /\ LimitWriteDone(offset, len, limit_write(LimitFile, offset, len))

NextLimit == \E offset \in LimitOffsets, len \in LimitLens :
                 LimitWrite(offset, len)

SpecLimit == InitLimit /\ [][NextLimit]_vars

Max(a, b) == IF a > b THEN a ELSE b

\* C25: a write that succeeds leaves a size of at most MAX_FILE_SIZE,
\* returns min(len, MAX_FILE_SIZE - offset), and the size is the end of the
\* highest byte written.
C25_WriteStopsAtLimit ==
    (last.op = "limit_write" /\ last.st = "ok") =>
        /\ last.f.size <= MAX_FILE_SIZE
        /\ last.v = Min(last.len, MAX_FILE_SIZE - last.offset)
        /\ last.f.size = Max(last.pre_size, last.offset + last.v)

\* the stored entry of cluster 1 with both flags of its FAT type set
Cluster1Flagged(b, raw) ==
    CASE b.fat_type = "FAT32" ->
            SetBit(SetBit(raw, CLEAN_SHUT_BIT), HARD_ERROR_BIT)
      [] b.fat_type = "FAT16" -> SetBit(SetBit(raw, 32768), 16384)
      [] OTHER -> raw

\* C26: an unmount that follows an unmount leaves the FAT region and the
\* FSInfo sector as the first one left them, for FAT12, FAT16 and FAT32;
\* and an unmount changes no bit of the entry of cluster 1 but the
\* clean-shutdown and the hard-error flag.
C26_UnmountIdempotent ==
    last.op = "unmount" =>
        /\ last.again =>
               (fat_region = last.pre_region /\ info_disk = last.pre_info)
        /\ Cluster1Flagged(bpb, table_get_entry_raw(bpb, fat_region, 1,
                                                    EntryOffset(bpb, 1)))
               = Cluster1Flagged(bpb, last.pre_raw)
        /\ bpb.fat_type = "FAT32" =>
               HighBits(bpb, fat_region, 1) = last.pre_high

\* unmount was called twice on a FAT32 volume whose entry of cluster 1 had
\* no flag set at mount: both flags are set and nothing else is
C26_UnmountedTwice ==
    /\ last.op = "unmount"
    /\ last.again
    /\ bpb.fat_type = "FAT32"
    /\ last.pre_raw = CLEAN_SHUT_BIT + HARD_ERROR_BIT
    /\ table_get_entry_raw(bpb, fat_region, 1, EntryOffset(bpb, 1))
           = last.pre_raw

(***************************************************************************)
(* bpb.rs and filesystem.rs: mounting.  The boot sector and the FSInfo     *)
(* sector are records of the fields the code reads; a 32-bit signature is  *)
(* the pair of its high and its low 16 bits.  Arithmetic that overflows is *)
(* a panic in a build with overflow checks and wraps in one without.       *)
(***************************************************************************)
LEAD_SIG == <<16737, 21074>>        \* 0x41615252
STRUC_SIG == <<24897, 29298>>       \* 0x61417272
TRAIL_SIG == <<43605, 0>>           \* 0xAA550000
Builds == {"checked", "wrapping"}

BootSectors ==
    [bytes_per_sector : {256, 512, 1536, 4096, 8192},
     sectors_per_cluster : {0, 1, 2},
     rsvd_sec_cnt : {0, 1},
     num_fats : {0, 2},
     root_entries_cnt : {0, 512},
     total_sectors_16 : {0, 4181, 4182},
     total_sectors_32 : {0, 4182, 66725, 66726},
     fat_size_16 : {0, 32},
     fat_size : {0, 600},
     fs_ver : {0, 1},
     lead_sig : {LEAD_SIG, <<0, 0>>},
     struc_sig : {STRUC_SIG, <<0, 0>>},
     trail_sig : {TRAIL_SIG, <<0, 0>>}]

count_ones(n) == Cardinality({i \in 0..15 : (n \div (2 ^ i)) % 2 = 1})
is_fat32(b) == b.total_sectors_16 = 0
bpb_root_sectors(b) ==
    (b.root_entries_cnt * 32 + b.bytes_per_sector - 1) \div b.bytes_per_sector
bpb_fat_sz(b) == IF b.fat_size_16 # 0 THEN b.fat_size_16 ELSE b.fat_size
bpb_tot_sec(b) ==
    IF b.total_sectors_16 # 0 THEN b.total_sectors_16 ELSE b.total_sectors_32
bpb_first_data_sec(b) ==
    b.rsvd_sec_cnt + b.num_fats * bpb_fat_sz(b) + bpb_root_sectors(b)
count_clusters(b) ==
    (bpb_tot_sec(b) - bpb_first_data_sec(b)) \div b.sectors_per_cluster

\* BiosParameterBlock::validate, in the order of its tests: "ok", "panic" or
\* the message of the error
validate_counted(b, build) ==
    IF bpb_tot_sec(b) < bpb_first_data_sec(b) /\ build = "checked"
    THEN "panic"
    ELSE IF b.sectors_per_cluster = 0 THEN "panic"
    ELSE IF bpb_tot_sec(b) <= bpb_first_data_sec(b)
    THEN "Total sectors lesser than first data sector"
    ELSE IF is_fat32(b) # (count_clusters(b) >= 65525)
    THEN "FAT determination using tot_sec_16 and count_cluster differs"
    ELSE "ok"

validate(b, build) ==
    IF count_ones(b.bytes_per_sector) # 1
    THEN "Invalid bytes per sector(not a power of 2"
    ELSE IF b.bytes_per_sector < 512
    THEN "Invalid bytes per sector (value < 512)"
    ELSE IF b.bytes_per_sector > 4096
    THEN "Invalid bytes per sector (value > 4096)"
    ELSE IF b.rsvd_sec_cnt < 1 THEN "Invalid rsvd_sec_cnt value in BPB"
    ELSE IF b.num_fats = 0 THEN "invalid fats value in BPB"
    ELSE IF is_fat32(b) /\ b.root_entries_cnt # 0
    THEN "Invalid root_entries value in BPB (should be zero for FAT32)"
    ELSE IF is_fat32(b) /\ b.total_sectors_16 # 0
    THEN "Invalid total_sectors_16 value in BPB (should be zero for FAT32)"
    ELSE IF (b.total_sectors_16 = 0) = (b.total_sectors_32 = 0)
    THEN "Invalid BPB (total_sectors_16 or total_sectors_32 should be non-zero)"
    ELSE IF is_fat32(b) /\ b.fat_size = 0
    THEN "Invalid sectors_per_fat_32 value in BPB (should be non-zero for FAT32)"
    ELSE IF b.fs_ver # 0 THEN "Unknown FS version"
    ELSE validate_counted(b, build)

\* the FAT type populate derives from the count of clusters
FatTypeOf(count) ==
    IF count < 4085 THEN "FAT12"
    ELSE IF count < 65525 THEN "FAT16" ELSE "FAT32"

\* BiosParameterBlock::populate: [st, v]; v is the FAT type or the error
bpb_populate_valid(b, v) ==
    IF v = "panic" THEN [st |-> "panic", v |-> "stopped"]
    ELSE IF v # "ok" THEN [st |-> "err", v |-> v]
    ELSE [st |-> "ok", v |-> FatTypeOf(count_clusters(b))]
bpb_populate(b, build) == bpb_populate_valid(b, validate(b, build))

\* FsInfo::is_valid, FsInfo::populate and FsInfo::default
FsInfo_is_valid(b) ==
    b.lead_sig = LEAD_SIG /\ b.struc_sig = STRUC_SIG /\ b.trail_sig = TRAIL_SIG
FsInfo_default ==
    [free_count |-> U32_UNKNOWN, next_free |-> RESERVED_CLUSTERS,
     offset |-> None]
FsInfo_populate(b) ==
    IF FsInfo_is_valid(b)
    THEN [st |-> "ok",
          v |-> [free_count |-> info_disk.free_count,
                 next_free |-> info_disk.next_free, offset |-> Some(1)]]
    ELSE [st |-> "err", v |-> "Error Parsing FsInfo"]

\* FileSystem::from_offset: [st, fat_type, fs_info, err]
Mounted(st, t, info, e) ==
    [op |-> "from_offset", st |-> st, fat_type |-> t, fs_info |-> info,
     err |-> e]
from_offset_info(b, t, info) ==
    IF info.st # "ok" THEN Mounted("err", t, FsInfo_default, info.v)
    ELSE IF b.fat_size_16 = 0 /\ t # "FAT32"
    THEN Mounted("err", t, info.v,
                 "FAT12 and FAT16 volumes should have non-zero BPB_FATSz16")
    ELSE Mounted("ok", t, info.v, "")
from_offset_bpb(b, p) ==
    IF p.st # "ok" THEN Mounted(p.st, "", FsInfo_default, p.v)
    ELSE from_offset_info(b, p.v,
                          IF p.v = "FAT32" THEN FsInfo_populate(b)
                          ELSE [st |-> "ok", v |-> FsInfo_default])
from_offset(b, build) == from_offset_bpb(b, bpb_populate(b, build))

InitMount ==
    /\ server = ServerOff
    /\ bpb \in BootSectors
    /\ fat_region = <<>>
    /\ fat = [c \in 0..MaxCluster |->
                 IF c = 0 THEN FAT_EOC_MIN
                 ELSE IF c = 1 \/ c = root_cluster THEN FAT_EOC
                 ELSE 0]
    /\ disk = [a \in 0..(DiskEnd - 1) |->
                  IF a < first_data_offset THEN MetaCell ELSE ZeroCell]
    /\ fs_info = FsInfo_default
    /\ info_disk = [free_count |-> MaxCluster - RESERVED_CLUSTERS,
                    next_free |-> RESERVED_CLUSTERS]
    /\ files = [h \in Handles |-> None]
    /\ last = [op |-> "boot", st |-> "ok"]
    /\ nops = 0

Mount(build) ==
    /\ last.op = "boot"
    /\ last' = from_offset(bpb, build)
    /\ fs_info' = last'.fs_info
    /\ nops' = nops + 1
    /\ UNCHANGED <<fat, disk, info_disk, files, bpb, server, fat_region>>

NextMount == \E build \in Builds : Mount(build)

SpecMount == InitMount /\ [][NextMount]_vars

\* the validation rules of a boot sector, by the count of clusters
RulesHold(b) ==
    /\ b.bytes_per_sector \in {512, 1024, 2048, 4096}
    /\ b.rsvd_sec_cnt >= 1
    /\ b.num_fats >= 1
    /\ b.sectors_per_cluster >= 1
    /\ (b.total_sectors_16 = 0) # (b.total_sectors_32 = 0)
    /\ bpb_tot_sec(b) > bpb_first_data_sec(b)
    /\ IF count_clusters(b) >= 65525
       THEN /\ b.root_entries_cnt = 0
            /\ b.total_sectors_16 = 0
            /\ b.fat_size # 0
            /\ b.fs_ver = 0
            /\ FsInfo_is_valid(b)
       ELSE b.fat_size_16 # 0

\* C27: a boot sector that meets the validation rules is mounted, and its
\* FAT type is the one its count of clusters gives; a FAT12 or FAT16 volume
\* whose total is held in total_sectors_32 is no exception.
C27_MountClassifiesByCount ==
    (last.op = "from_offset" /\ RulesHold(bpb)) =>
        /\ last.st = "ok"
        /\ last.fat_type = FatTypeOf(count_clusters(bpb))

\* the boot sector is one of a FAT32 volume that validate accepts
ValidFat32(b) ==
    /\ RulesHold([b EXCEPT !.lead_sig = LEAD_SIG, !.struc_sig = STRUC_SIG,
                           !.trail_sig = TRAIL_SIG])
    /\ count_clusters(b) >= 65525

\* C28: a FAT32 volume whose FSInfo sector has a wrong lead, structure or
\* trail signature is mounted, with the FSInfo in memory at its defaults:
\* free count unknown, next-free hint at the first data cluster.
C28_BadFsInfoMounts ==
    (last.op = "from_offset" /\ ValidFat32(bpb) /\ ~FsInfo_is_valid(bpb)) =>
        /\ last.st = "ok"
        /\ last.fs_info.free_count = U32_UNKNOWN
        /\ last.fs_info.next_free = RESERVED_CLUSTERS

(***************************************************************************)
(* The transfers an operation issues to the stream: each read or write     *)
(* call with the byte position of the stream at the call and the length of *)
(* its buffer.  Offsets here are bytes; a directory slot is SlotBytes long *)
(* and a block BlockBytes.                                                 *)
(***************************************************************************)
SlotBytes == 32
BlockBytes == BLOCK_SIZE * SlotBytes

RECURSIVE SumTo(_, _)
SumTo(lens, k) == IF k = 0 THEN 0 ELSE lens[k] + SumTo(lens, k - 1)
\* calls of the given lengths, one after the other from byte position at
Calls(kind, at, lens) ==
    [i \in 1..Len(lens) |->
        [kind |-> kind, at |-> at + SumTo(lens, i - 1), len |-> lens[i]]]

\* the fields of a short entry and of a long entry, as flush writes them
ShortFieldLens == <<11, 1, 1, 1, 2, 2, 2, 2, 2, 2, 2, 4>>
LongFieldLens ==
    <<1, 2, 2, 2, 2, 2, 1, 1, 1, 2, 2, 2, 2, 2, 2, 2, 2, 2>>
\* the fields of a long entry as get_dir_entry_raw reads them
LongReadLens == <<1, 10, 1, 1, 1, 12, 2, 4>>

\* ShortDirEntry::flush and LongDirEntry::flush: seek_to(offset), then one
\* write per field
io_short_flush(offset) == Calls("write", partition_offset + offset,
                                ShortFieldLens)
io_long_flush(offset) == Calls("write", partition_offset + offset,
                               LongFieldLens)

\* get_dir_entry_raw of the slot that holds cell: the first byte, then the
\* attribute byte, then the fields from the start of the slot
io_get_dir_entry_raw(cell, offset) ==
    Calls("read", partition_offset + offset, <<1>>)
        \o (IF first_byte(cell) \in {0, 229} THEN <<>>
            ELSE Calls("read", partition_offset + offset + 11, <<1>>)
                    \o (IF cell.k = "lfn"
                        THEN Calls("read", partition_offset + offset,
                                   LongReadLens)
                        ELSE IF cell.k = "sfn"
                        THEN Calls("read", partition_offset + offset,
                                   ShortFieldLens)
                        ELSE <<>>))

\* seek_to_block and get_block_buffer, in bytes
io_block_start(offset) ==
    ((partition_offset + offset) \div BlockBytes) * BlockBytes
io_block_buffer(byte_offset, read_size) ==
    (((byte_offset % BlockBytes) + read_size + BlockBytes - 1)
        \div BlockBytes) * BlockBytes

\* FileSystem::write_to and FileSystem::read_at of len bytes at offset
RECURSIVE io_write_to_loop(_, _, _, _, _)
io_write_to_loop(offset, len, start, i, blk_offset) ==
    IF i >= (len + BlockBytes - 1) \div BlockBytes THEN <<>>
    ELSE <<[kind |-> "read", at |-> io_block_start(offset),
            len |-> io_block_buffer(partition_offset + blk_offset,
                                    BlockBytes)],
           [kind |-> "write",
            at |-> io_block_start(
                       offset + Min(BlockBytes - blk_offset, len - start)),
            len |-> io_block_buffer(partition_offset + blk_offset,
                                    BlockBytes)]>>
            \o io_write_to_loop(
                   offset + Min(BlockBytes - blk_offset, len - start), len,
                   start + Min(BlockBytes - blk_offset, len - start), i + 1,
                   blk_offset)
io_write_to(offset, len) ==
    io_write_to_loop(offset, len, 0, 0,
                     (partition_offset + offset) % BlockBytes)

RECURSIVE io_read_at_loop(_, _, _, _, _)
io_read_at_loop(offset, len, start, i, blk_offset) ==
    IF i >= (len + BlockBytes - 1) \div BlockBytes THEN <<>>
    ELSE <<[kind |-> "read", at |-> io_block_start(offset),
            len |-> io_block_buffer(partition_offset + blk_offset,
                                    BlockBytes)]>>
            \o io_read_at_loop(
                   offset + Min(BlockBytes - blk_offset, len - start), len,
                   start + Min(BlockBytes - blk_offset, len - start), i + 1,
                   blk_offset)
io_read_at(offset, len) ==
    io_read_at_loop(offset, len, 0, 0,
                    (partition_offset + offset) % BlockBytes)

\* get_entry and set_entry of a FAT32 entry at byte offset of the volume
io_get_entry(offset) ==
    <<[kind |-> "read", at |-> io_block_start(offset),
       len |-> io_block_buffer(partition_offset + offset, 4)]>>
io_set_entry(offset) ==
    <<[kind |-> "read", at |-> io_block_start(offset),
       len |-> io_block_buffer(partition_offset + offset, 4)],
      [kind |-> "write", at |-> io_block_start(offset),
       len |-> io_block_buffer(partition_offset + offset, 4)]>>

IoSlots == 0..(bytes_per_cluster - 1)
IoOffsets == {0, 1, BlockBytes - 1, BlockBytes, BlockBytes + 2}
IoLens == {1, BlockBytes, BlockBytes + 1}
SlotOffset(slot) == (cluster_offset(root_cluster) + slot) * SlotBytes

Io(op, transfers) ==
    /\ last.op = "mount"
    /\ last' = [op |-> op, st |-> "ok", transfers |-> transfers]
    /\ nops' = nops + 1
    /\ UNCHANGED <<fat, disk, fs_info, info_disk, files, bpb, server, fat_region>>

IoDirEntryRead(slot) ==
    Io("get_dir_entry_raw",
       io_get_dir_entry_raw(disk[cluster_offset(root_cluster) + slot],
                            SlotOffset(slot)))
IoShortFlush(slot) == Io("short_flush", io_short_flush(SlotOffset(slot)))
IoLongFlush(slot) == Io("long_flush", io_long_flush(SlotOffset(slot)))
IoWriteTo(offset, len) == Io("write_to", io_write_to(offset, len))
IoReadAt(offset, len) == Io("read_at", io_read_at(offset, len))
IoGetEntry(cluster) == Io("get_entry", io_get_entry(cluster * 4))
IoSetEntry(cluster) == Io("set_entry", io_set_entry(cluster * 4))

NextIo ==
    \/ \E slot \in IoSlots : IoDirEntryRead(slot)
    \/ \E slot \in IoSlots : IoShortFlush(slot)
    \/ \E slot \in IoSlots : IoLongFlush(slot)
    \/ \E offset \in IoOffsets, len \in IoLens : IoWriteTo(offset, len)
    \/ \E offset \in IoOffsets, len \in IoLens : IoReadAt(offset, len)
    \/ \E cluster \in Clusters : IoGetEntry(cluster)
    \/ \E cluster \in Clusters : IoSetEntry(cluster)

SpecIo == InitImage /\ [][NextIo]_vars

WholeBlocks(t) ==
    /\ t.at % BlockBytes = 0
    /\ t.len > 0
    /\ t.len % BlockBytes = 0

\* C29: every read and every write an operation issues to the stream starts
\* at a multiple of the block size and transfers a whole number of blocks.
C29_WholeBlockTransfers ==
    last.op \in {"get_dir_entry_raw", "short_flush", "long_flush", "write_to",
                 "read_at", "get_entry", "set_entry"} =>
        \A i \in 1..Len(last.transfers) : WholeBlocks(last.transfers[i])

\* the slots of the root directory's cluster whose first byte is 0x00
TerminatorSlots ==
    {k \in 0..(bytes_per_cluster - 1) :
        first_byte(disk[cluster_offset(root_cluster) + k]) = 0}

\* the slot of the root directory's cluster that holds the short entry of e
ShortSlotOf(e) == get_dir_range(e).v[2][2]

\* C30: iterating a directory emits no entry whose short entry lies in a
\* slot after the first slot that starts with 0x00, whatever precedes that
\* slot.
C30_HaltsAtTerminator ==
    last.op = "iterate" =>
        \A i \in 1..Len(last.entries) :
            \A k \in TerminatorSlots : ShortSlotOf(last.entries[i]) < k

\* the slots of the root directory's cluster that hold a live short entry
\* and lie before every slot that starts with 0x00
LiveShortSlots ==
    {k \in 0..(bytes_per_cluster - 1) :
        /\ disk[cluster_offset(root_cluster) + k].k = "sfn"
        /\ first_byte(disk[cluster_offset(root_cluster) + k]) \notin {0, 229}
        /\ \A z \in TerminatorSlots : k < z}

\* C31: iteration skips no live short entry: a short entry that ends an
\* orphaned LFN run is emitted like any other, at its own slot.
C31_NoShortEntrySkipped ==
    last.op = "iterate" =>
        \A k \in LiveShortSlots :
            \E i \in 1..Len(last.entries) : ShortSlotOf(last.entries[i]) = k

(***************************************************************************)
(* The fixed root directory of a FAT12 or FAT16 volume: root_entries_cnt   *)
(* slots directly before the data region, read through cluster 0, whose    *)
(* cluster_offset is 0, with the byte offset of the slot as the offset.    *)
(***************************************************************************)
FixedRootEntries == 3           \* bpb.root_entries_cnt
root_dir_offset == first_data_offset - FixedRootEntries * DIR_ENTRY_LEN
root_dir_end_offset == root_dir_offset + FixedRootEntries * DIR_ENTRY_LEN
FixedRegion == root_dir_offset..(root_dir_end_offset - 1)

\* FileSystem::root_dir, the branch of FAT12 and FAT16
fixed_root_dir ==
    [kind |-> "Dir", first_cluster |-> 0, dir_path |-> <<>>,
     dir_name |-> <<47>>, root_offset |-> Some(root_dir_offset),
     short_dir_entry |-> None, loc |-> None]

\* the loop "for i in 1..20" of get_dir_entry with is_root:
\* [st, offset, entries, reads]
RECURSIVE fixed_lfn_collect(_, _, _, _, _)
RECURSIVE fixed_lfn_collect_raw(_, _, _, _, _, _)
fixed_lfn_collect(fs, offset, entries, reads, i) ==
    IF i >= 20 \/ offset > root_dir_end_offset
    THEN [st |-> "ok", offset |-> offset, entries |-> entries,
          reads |-> reads]
    ELSE fixed_lfn_collect_raw(fs, offset, entries, reads \cup {offset}, i,
                               get_dir_entry_raw(fs, cluster_offset(0) + offset))
fixed_lfn_collect_raw(fs, offset, entries, reads, i, raw) ==
    IF raw.st # "ok"
    THEN [st |-> "err", offset |-> offset, entries |-> entries,
          reads |-> reads]
    ELSE IF raw.v.t = "Short"
    THEN [st |-> "ok", offset |-> offset,
          entries |-> Append(entries, raw.v), reads |-> reads]
    ELSE IF raw.v.t = "Long"
    THEN fixed_lfn_collect(fs, offset + DIR_ENTRY_LEN,
                           Append(entries, raw.v), reads, i + 1)
    ELSE [st |-> "ok", offset |-> offset, entries |-> entries,
          reads |-> reads]

\* DirIter::get_dir_entry with is_root: [st, offset, ret, reads]
RECURSIVE fixed_get_dir_entry(_, _, _, _)
RECURSIVE fixed_get_dir_entry_case(_, _, _, _, _)
RECURSIVE fixed_get_dir_entry_long(_, _, _, _)
RECURSIVE fixed_get_dir_entry_built(_, _, _, _, _)
fixed_get_dir_entry(fs, offset, reads, fuel) ==
    IF fuel = 0
    THEN [st |-> "hang", offset |-> offset, ret |-> None, reads |-> reads]
    ELSE IF offset > root_dir_end_offset
    THEN [st |-> "ok", offset |-> offset, ret |-> None, reads |-> reads]
    ELSE fixed_get_dir_entry_case(
             fs, offset, reads \cup {offset}, fuel,
             get_dir_entry_raw(fs, cluster_offset(0) + offset))
fixed_get_dir_entry_case(fs, offset, reads, fuel, raw) ==
    IF raw.st # "ok"
    THEN [st |-> "err", offset |-> offset, ret |-> None, reads |-> reads]
    ELSE IF raw.v.t = "Short"
    THEN [st |-> "ok", offset |-> offset + DIR_ENTRY_LEN,
          ret |-> Some(to_dir_entry(raw.v.e, <<0, offset>>, <<>>)),
          reads |-> reads]
    ELSE IF raw.v.t = "Long"
    THEN fixed_get_dir_entry_long(
             fs, offset, fuel,
             fixed_lfn_collect(fs, offset + DIR_ENTRY_LEN, <<raw.v>>,
                               reads, 1))
    ELSE IF raw.v.t = "Free"
    THEN fixed_get_dir_entry(fs, offset + DIR_ENTRY_LEN, reads, fuel - 1)
    ELSE [st |-> "ok", offset |-> offset, ret |-> None, reads |-> reads]
fixed_get_dir_entry_long(fs, start_offset, fuel, col) ==
    IF col.st # "ok"
    THEN [st |-> "err", offset |-> col.offset, ret |-> None,
          reads |-> col.reads]
    ELSE fixed_get_dir_entry_built(
             fs, col.offset + DIR_ENTRY_LEN, col.reads, fuel,
             construct_dentry(col.entries, <<>>,
                              <<(<<0, start_offset>>), (<<0, col.offset>>)>>))
fixed_get_dir_entry_built(fs, past, reads, fuel, dentry) ==
    IF dentry.st = "ok"
    THEN [st |-> "ok", offset |-> past, ret |-> Some(dentry.v),
          reads |-> reads]
    ELSE fixed_get_dir_entry(fs, past, reads, fuel - 1)

\* the iteration of the fixed root: [entries, reads]; an Err of
\* get_dir_entry ends it (DirIter::next)
RECURSIVE fixed_collect(_, _, _, _, _)
RECURSIVE fixed_collect_rest(_, _, _, _)
fixed_collect(fs, offset, entries, reads, fuel) ==
    fixed_collect_rest(fs, entries, fuel,
                       fixed_get_dir_entry(fs, offset, reads, DirFuel))
fixed_collect_rest(fs, entries, fuel, r) ==
    IF fuel = 0 \/ r.st # "ok" \/ r.ret.k = "none"
    THEN [entries |-> entries, reads |-> r.reads]
    ELSE fixed_collect(fs, r.offset, Append(entries, r.ret.v), r.reads,
                       fuel - 1)

\* Dir::find_free_entries with is_root: the loop is left only by a return,
\* so no cluster is allocated; [st, fs, v, reads]
RECURSIVE fixed_find_free_loop(_, _, _, _, _, _, _)
RECURSIVE fixed_find_free_slot(_, _, _, _, _, _, _, _)
fixed_find_free_loop(fs, offset, free, first_free, num_free, reads, fuel) ==
    IF fuel = 0
    THEN [st |-> "hang", fs |-> fs, v |-> None, reads |-> reads]
    ELSE IF offset > root_dir_end_offset
    THEN [st |-> "ok", fs |-> fs, v |-> None, reads |-> reads]
    ELSE fixed_find_free_slot(fs, offset, free, first_free, num_free,
                              reads \cup {offset}, fuel,
                              get_dir_entry_raw(fs, cluster_offset(0) + offset))
fixed_find_free_slot(fs, offset, free, first_free, num_free, reads, fuel,
                     raw) ==
    IF raw.st # "ok"
    THEN [st |-> "err", fs |-> fs, v |-> "io", reads |-> reads]
    ELSE IF raw.v.t \notin {"Free", "FreeRest"}
    THEN fixed_find_free_loop(fs, offset + DIR_ENTRY_LEN, 0, first_free,
                              num_free, reads, fuel - 1)
    ELSE IF free + 1 = num_free
    THEN [st |-> "ok", fs |-> fs,
          v |-> IF free = 0 THEN Some(<<0, offset>>) ELSE first_free,
          reads |-> reads]
    ELSE fixed_find_free_loop(
             fs, offset + DIR_ENTRY_LEN, free + 1,
             IF free = 0 THEN Some(<<0, offset>>) ELSE first_free,
             num_free, reads, fuel - 1)

fixed_find_free_entries(num_free, fs) ==
    fixed_find_free_loop(fs, root_dir_offset, 0, None, num_free, {},
                         DirFuel + 1)

\* Dir::create_dir_entries on the fixed root
fixed_create_dir_entries(lname, sname, fattrs, fs) ==
    create_dir_entries_free(
        fixed_root_dir, lname,
        [ShortDirEntryDefault EXCEPT !.dir_name = sname,
                                     !.file_attrs = fattrs],
        fixed_find_free_entries(num_entries(lname) + 1, fs))

\* the first slot of cluster 2, the slot behind the fixed root
FixedNextCells == {ZeroCell, FreeMarker, ImageSfn}

InitFixed ==
    /\ fat = [c \in 0..MaxCluster |->
                 IF c = 0 THEN FAT_EOC_MIN
                 ELSE IF c = 1 \/ c = root_cluster THEN FAT_EOC
                 ELSE 0]
    /\ \E img \in [FixedRegion -> ImageCells], nxt \in FixedNextCells :
          disk = [a \in 0..(DiskEnd - 1) |->
                     IF a < root_dir_offset THEN MetaCell
                     ELSE IF a < root_dir_end_offset THEN img[a]
                     ELSE IF a = root_dir_end_offset THEN nxt
                     ELSE ZeroCell]
    /\ fs_info = [free_count |-> MaxCluster - RESERVED_CLUSTERS,
                  next_free |-> RESERVED_CLUSTERS]
    /\ info_disk = [free_count |-> MaxCluster - RESERVED_CLUSTERS,
                    next_free |-> RESERVED_CLUSTERS]
    /\ files = [h \in Handles |-> None]
    /\ last = [op |-> "mount", st |-> "ok"]
    /\ nops = 0
    /\ server = ServerOff
    /\ bpb = [fat_type |-> "FAT16", num_fats |-> 2, mirroring |-> FALSE]
    /\ fat_region = <<>>

FixedIterateDone(r) ==
    /\ last' = [op |-> "iterate", st |-> "ok", entries |-> r.entries,
                reads |-> r.reads, pre_disk |-> disk, pre_fat |-> fat]
    /\ nops' = nops + 1
    /\ UNCHANGED <<fat, disk, fs_info, info_disk, files, bpb, server, fat_region>>

FixedIterate ==
    /\ last.op = "mount"
    /\ FixedIterateDone(fixed_collect(FS, root_dir_offset, <<>>, {}, DirFuel))

FixedFindFreeDone(n, r) ==
    /\ last' = [op |-> "find_free_entries", st |-> r.st, n |-> n, v |-> r.v,
                reads |-> r.reads, pre_disk |-> disk, pre_fat |-> fat]
    /\ fat' = r.fs.fat
    /\ disk' = r.fs.disk
    /\ fs_info' = r.fs.fs_info
    /\ nops' = nops + 1
    /\ UNCHANGED <<info_disk, files, bpb, server, fat_region>>

FixedFindFree(n) ==
    /\ last.op = "mount"
    /\ FixedFindFreeDone(n, fixed_find_free_entries(n, FS))

FixedCreateDone(lname, r) ==
    /\ last' = [op |-> "create_dir_entries", st |-> r.st, lname |-> lname,
                v |-> r.v, pre_disk |-> disk, pre_fat |-> fat]
    /\ fat' = r.fs.fat
    /\ disk' = r.fs.disk
    /\ fs_info' = r.fs.fs_info
    /\ nops' = nops + 1
    /\ UNCHANGED <<info_disk, files, bpb, server, fat_region>>

FixedCreate(lname) ==
    /\ last.op = "mount"
    /\ FixedCreateDone(lname,
                       fixed_create_dir_entries(lname, ImageSfn.dir_name,
                                                ARCHIVE, FS))

NextFixed ==
    \/ FixedIterate
    \/ \E n \in 1..(FixedRootEntries + 1) : FixedFindFree(n)
    \/ \E lname \in {NameA, LongName} : FixedCreate(lname)

SpecFixed == InitFixed /\ [][NextFixed]_vars

\* the slots of the fixed root that are free, and whether it holds a run
\* of n of them
FixedFree(d, a) == first_byte(d[a]) \in {0, 229}
FixedRunOf(d, n) ==
    \E a \in FixedRegion :
        /\ a + n - 1 < root_dir_end_offset
        /\ \A k \in a..(a + n - 1) : FixedFree(d, k)
EntrySlots(e) ==
    get_dir_range(e).v[1][2]..get_dir_range(e).v[2][2]

\* C32: on the fixed root directory, iteration, find_free_entries and entry
\* creation read, return and write only slots inside
\* [root_dir_offset, root_dir_offset + root_entries * 32), and
\* find_free_entries reports no space, allocating nothing, when the region
\* holds no run of n free slots.
C32_FixedRootStaysInside ==
    /\ last.op \in {"iterate", "find_free_entries"} =>
           last.reads \subseteq FixedRegion
    /\ last.op = "iterate" =>
           \A i \in 1..Len(last.entries) :
               EntrySlots(last.entries[i]) \subseteq FixedRegion
    /\ (last.op = "find_free_entries" /\ last.st = "ok"
            /\ last.v.k = "some") =>
           last.v.v[2] \in FixedRegion
    /\ last.op \in {"iterate", "find_free_entries", "create_dir_entries"} =>
           \A a \in DOMAIN disk :
               disk[a] # last.pre_disk[a] => a \in FixedRegion
    /\ (last.op = "find_free_entries"
            /\ ~FixedRunOf(last.pre_disk, last.n)) =>
           (last.st = "ok" /\ last.v.k = "none" /\ fat = last.pre_fat)

ClusterCells(c) == cluster_offset(c)..(cluster_offset(c) + bytes_per_cluster - 1)
ClusterOf(a) == RESERVED_CLUSTERS + ((a - first_data_offset) \div bytes_per_cluster)

InitZero ==
    /\ \E f \in [(root_cluster + 1)..MaxCluster -> {0, FAT_EOC}] :
          /\ fat = [c \in 0..MaxCluster |->
                       IF c = 0 THEN FAT_EOC_MIN
                       ELSE IF c = 1 \/ c = root_cluster THEN FAT_EOC
                       ELSE f[c]]
          /\ fs_info = [free_count |->
                            Cardinality({c \in DOMAIN f : f[c] = 0}),
                        next_free |-> RESERVED_CLUSTERS]
          /\ info_disk = [free_count |->
                              Cardinality({c \in DOMAIN f : f[c] = 0}),
                          next_free |-> RESERVED_CLUSTERS]
    /\ \E dirty \in SUBSET ((root_cluster + 1)..MaxCluster) :
          disk = [a \in 0..(DiskEnd - 1) |->
                     IF a < first_data_offset THEN MetaCell
                     ELSE IF ClusterOf(a) \in dirty THEN DataCell(170)
                     ELSE ZeroCell]
    /\ files = [h \in Handles |-> None]
    /\ last = [op |-> "mount", st |-> "ok"]
    /\ nops = 0
    /\ server = ServerOff
    /\ bpb = Fat32Bpb
    /\ fat_region = <<>>

ZeroAllocate ==
    /\ last.op = "mount"
    /\ AllocateDone(None, allocate_cluster(FS, None))

NextZero == ZeroAllocate

SpecZero == InitZero /\ [][NextZero]_vars

\* C34: after allocate_cluster returns a cluster, every byte of the
\* cluster's data region is zero and no byte of the data region of any
\* other cluster has been modified.
C34_AllocatedClusterZeroed ==
    (last.op = "allocate" /\ last.st = "ok") =>
        /\ \A a \in ClusterCells(last.v) : disk[a] = ZeroCell
        /\ \A x \in Clusters \ {last.v} :
               \A a \in ClusterCells(x) : disk[a] = last.pre_disk[a]

\* C35: after a successful write at an offset beyond the previous size,
\* reading the range from the previous size to the offset returns only
\* zero bytes.
C35_HoleReadsZero ==
    (last.op = "write" /\ last.st = "ok" /\ last.v = Len(last.buf)
        /\ last.offset > last.pre_size) =>
        \A i \in 1..Len(read(files[last.h], last.offset - last.pre_size,
                            FS, last.pre_size).v) :
            read(files[last.h], last.offset - last.pre_size, FS,
                 last.pre_size).v[i] = ZeroCell

\* the slots of the group a File or Dir object names as its location
HandleSlots(f) ==
    {GroupOf(FS, f)[i] : i \in 1..Len(GroupOf(FS, f))}

\* a write or truncate through handle h directly after the path the handle
\* was opened on has been removed
StaleAfterRemove ==
    /\ last.op = "remove"
    /\ last.st = "ok"
    /\ last'.op \in {"write", "truncate"}
    /\ files[last'.h] # None
    /\ entry_dir_path(files[last'.h]) = last.path

\* C36: once remove(p) has marked the slots of p free, a write or truncate
\* through a handle opened on p before writes to none of those slots and
\* does not make p resolve again; and after a successful frename the handle
\* refers to the entry at its new location.
C36_StaleHandleHarmless ==
    [][/\ StaleAfterRemove =>
              /\ \A a \in HandleSlots(files[last'.h]) : disk'[a] = disk[a]
              /\ get_entry_abs(last.path,
                               [fat |-> fat', disk |-> disk',
                                fs_info |-> fs_info']).st # "ok"
       /\ (last'.op = "rename" /\ last'.st = "ok") =>
              entry_dir_path(files'[last'.h]) = last'.dst]_vars

(***************************************************************************)
(* mount/redox/scheme.rs: the permission check and open.                   *)
(***************************************************************************)
MODE_WRITE == 2
MODE_READ == 4
ModeBits(x) == {b \in {1, 2, 4} : (x \div b) % 2 = 1}

\* FileScheme::permission; sch is [mount_mode, mount_uid, mount_gid]
permission(sch, uid, gid, op) ==
    ModeBits(op) \subseteq
        (ModeBits(sch.mount_mode % 8)
            \cup (IF sch.mount_uid = uid
                  THEN ModeBits((sch.mount_mode \div 64) % 8) ELSE {})
            \cup (IF sch.mount_gid = gid \/ gid = 0
                  THEN ModeBits((sch.mount_mode \div 8) % 8) ELSE {})
            \cup (IF uid = 0 THEN {1, 2, 4} ELSE {}))

\* result::from
errno_of(e) ==
    CASE e = "No such file or directory" -> "ENOENT"
      [] e = "PermissionDenied" -> "EPERM"
      [] OTHER -> "EIO"
scheme_from(r) ==
    IF r.st = "err" THEN Err(r.fs, errno_of(r.v)) ELSE r

\* open of an existing file with O_TRUNC: the entry is truncated, the
\* resource is made of the entry as it was looked up
scheme_open_truncated(e, t) ==
    IF t.st # "ok" THEN Err(t.fs, "EIO") ELSE Ok(t.fs, e)

scheme_open_file(sch, flags, uid, gid, fs, e) ==
    IF flags.directory THEN Err(fs, "ENOTDIR")
    ELSE IF flags.acc \in {"RDONLY", "RDWR"}
            /\ ~permission(sch, uid, gid, MODE_READ)
    THEN Err(fs, "EACCES")
    ELSE IF flags.acc \in {"WRONLY", "RDWR"}
            /\ ~permission(sch, uid, gid, MODE_WRITE)
    THEN Err(fs, "EACCES")
    ELSE IF ~flags.trunc THEN Ok(fs, e)
    ELSE IF permission(sch, uid, gid, MODE_WRITE) THEN Err(fs, "EACCES")
    ELSE scheme_open_truncated(e, truncate(e, fs, 0))

scheme_open_dir(sch, flags, uid, gid, fs, e) ==
    IF flags.acc = "RDONLY"
    THEN IF ~permission(sch, uid, gid, MODE_READ) THEN Err(fs, "EACCES")
         ELSE Ok(fs, e)
    ELSE Err(fs, "EISDIR")

scheme_open_found(sch, flags, uid, gid, fs, e) ==
    IF flags.creat /\ flags.excl THEN Err(fs, "EEXIST")
    ELSE IF entry_is_dir(e) THEN scheme_open_dir(sch, flags, uid, gid, fs, e)
    ELSE scheme_open_file(sch, flags, uid, gid, fs, e)

scheme_open_missing(sch, path, flags, uid, gid, fs) ==
    IF ~flags.creat THEN Err(fs, "ENOENT")
    ELSE IF permission(sch, uid, gid, MODE_WRITE) THEN Err(fs, "EACCES")
    ELSE IF flags.directory THEN scheme_from(create_dir(root_dir, path, fs))
    ELSE scheme_from(create_file(root_dir, path, fs))

scheme_open_entry(sch, path, flags, uid, gid, fs, dentry) ==
    IF dentry.st \in {"hang", "panic"} THEN Fail(dentry.st, fs)
    ELSE IF dentry.st = "ok"
    THEN scheme_open_found(sch, flags, uid, gid, fs, dentry.v)
    ELSE scheme_open_missing(sch, path, flags, uid, gid, fs)

scheme_open(sch, path, flags, uid, gid, fs) ==
    scheme_open_entry(sch, path, flags, uid, gid, fs, get_entry_abs(path, fs))

\* the mounts and callers of the model: mount modes 0755 and 0777, the
\* superuser and a caller in the group of the mount
Schemes ==
    [mount_mode : {493, 511}, mount_uid : {1000}, mount_gid : {100}]
OpenUids == {0, 1001}
OpenGids == {100}
OpenOps == 3
OpenFlags ==
    [acc : {"RDONLY", "WRONLY", "RDWR"}, creat : BOOLEAN, excl : {FALSE},
     trunc : BOOLEAN, directory : BOOLEAN]
OpenPaths == {<<NameA>>}

SchemeOpenDone(h, sch, path, flags, uid, gid, pre, r) ==
    /\ Commit(r.fs)
    /\ files' = IF r.st = "ok" THEN [files EXCEPT ![h] = r.v] ELSE files
    /\ last' = [op |-> "scheme_open", st |-> r.st, path |-> path,
                flags |-> flags, sch |-> sch, uid |-> uid, gid |-> gid,
                err |-> IF r.st = "err" THEN r.v ELSE "",
                write_ok |-> permission(sch, uid, gid, MODE_WRITE),
                read_ok |-> permission(sch, uid, gid, MODE_READ),
                existed |-> pre.st = "ok",
                was_file |-> pre.st = "ok" /\ ~entry_is_dir(pre.v),
                unchanged |-> r.fs = FS]
    /\ info_disk' = info_disk
    /\ nops' = nops + 1

SchemeOpen(h, sch, path, flags, uid, gid) ==
    /\ Running
    /\ nops < OpenOps
    /\ files[h] = None
    /\ SchemeOpenDone(h, sch, path, flags, uid, gid, get_entry_abs(path, FS),
                      scheme_open(sch, path, flags, uid, gid, FS))

NextOpen ==
    \/ \E h \in Handles, sch \in Schemes, path \in OpenPaths,
          flags \in OpenFlags, uid \in OpenUids, gid \in OpenGids :
          SchemeOpen(h, sch, path, flags, uid, gid)
    \/ \E h \in Handles : Write(h, 0, 1, 170)
    \/ \E h \in Handles : Close(h)

SpecOpen == Init /\ [][NextOpen]_vars

\* C37: open with O_CREAT on a missing path, or with O_TRUNC on an existing
\* file, proceeds exactly when the caller has write permission, and
\* otherwise returns EACCES and leaves the volume unchanged.
C37_OpenChecksWrite ==
    (/\ last.op = "scheme_open"
     /\ \/ last.flags.creat /\ ~last.existed
        \/ /\ last.flags.trunc /\ last.was_file /\ ~last.flags.directory
           /\ last.flags.acc = "WRONLY") =>
        IF last.write_ok
        THEN last.err # "EACCES"
        ELSE last.err = "EACCES" /\ last.unchanged

\* one file name and one directory name under several letter cases, created
\* again and again in the root directory
CaseFilePaths == {<<(<<97, 98>>)>>, <<(<<65, 66>>)>>, <<(<<65, 98>>)>>}
CaseDirPaths == {<<(<<100>>)>>, <<(<<68>>)>>}

NextCase ==
    \/ \E h \in Handles, p \in CaseFilePaths : CreateFile(h, p)
    \/ \E p \in CaseDirPaths : CreateDir(p)
    \/ \E h \in Handles : Close(h)

SpecCase == Init /\ [][NextCase]_vars

UpperPath(path) == [i \in 1..Len(path) |-> UpperName(path[i])]
KindOf(op) == IF op = "create_dir" THEN "Dir" ELSE "File"

\* two objects for one entry of a directory: the same slots, the same short
\* entry
SameEntry(a, b) ==
    /\ a.kind = b.kind
    /\ a.first_cluster = b.first_cluster
    /\ get_dir_range(a) = get_dir_range(b)
    /\ entry_short_dir_entry(a) = entry_short_dir_entry(b)

\* a create of the name a successful create has just made, under any case
RepeatedCreate ==
    /\ last.op \in {"create_file", "create_dir"}
    /\ last.st = "ok"
    /\ last'.op = last.op
    /\ UpperPath(last'.path) = UpperPath(last.path)

\* C38: create_file on a path where a file exists, and create_dir where a
\* directory exists, under any letter case of the name, returns the existing
\* entry and changes neither a directory slot nor the FAT nor the free
\* count; a repeated create finds the entry the first one made.
C38_CreateExistingReturnsIt ==
    [][/\ (/\ last'.op \in {"create_file", "create_dir"}
           /\ last'.existed
           /\ last'.pre_entry.kind = KindOf(last'.op)) =>
              /\ last'.st = "ok"
              /\ last'.entry = last'.pre_entry
              /\ disk' = disk /\ fat' = fat /\ fs_info' = fs_info
       /\ RepeatedCreate =>
              /\ last'.existed
              /\ last'.st = "ok"
              /\ SameEntry(last'.entry, last.entry)]_vars

\* FileSystem::clean_shut_bit over the bytes of the FAT region
table_clean_shut_bit(b, bytes) ==
    CASE b.fat_type = "FAT32" ->
            (table_get_entry_raw(b, bytes, 1, EntryOffset(b, 1))
                \div CLEAN_SHUT_BIT) % 2 = 1
      [] b.fat_type = "FAT16" ->
            (table_get_entry_raw(b, bytes, 1, EntryOffset(b, 1))
                \div 32768) % 2 = 1
      [] OTHER -> TRUE

\* no unmount has run since the mount
StillMounted ==
    \/ last.op = "mount"
    \/ last.op = "set_entry" /\ nops = 1

\* C39: on FAT16 and FAT32, in every state between a successful mount and
\* its unmount the clean-shutdown flag in the entry of cluster 1 reads
\* 'not clean' on disk.
C39_MountedReadsNotClean ==
    (bpb.fat_type \in {"FAT16", "FAT32"} /\ StillMounted) =>
        ~table_clean_shut_bit(bpb, fat_region)

(***************************************************************************)
(* mount/redox/mod.rs: mount, the loop that serves the scheme socket, and  *)
(* bin/mount.rs: unmount_handler, the handler of SIGTERM.                  *)
(***************************************************************************)
MaxPackets == MaxFiles      \* packets the clients send in one behaviour
SocketDepth == 1            \* packets the socket holds unread

\* the mount of the served volume: mode 0755
ServeScheme == [mount_mode |-> 493, mount_uid |-> 1000, mount_gid |-> 100]
\* Packet: the call and its arguments; a, which carries the number of the
\* call in the request, is kept as call, and a holds the answer
ServePackets ==
    [call : {"SYS_OPEN"}, uid : OpenUids, creat : BOOLEAN, fd : {0},
     a : {0}] \cup
    [call : {"SYS_CLOSE"}, uid : {0}, creat : {FALSE}, fd : Handles,
     a : {0}]
ServeFlags(p) ==
    [acc |-> "RDWR", creat |-> p.creat, excl |-> FALSE, trunc |-> FALSE,
     directory |-> FALSE]

\* the numbers of the errors of the scheme
ErrnoNames == {"EPERM", "ENOENT", "EIO", "EBADF", "EACCES", "EEXIST",
               "ENOTDIR", "EISDIR", "EINVAL"}
Errno(e) ==
    CASE e = "EPERM" -> 1
      [] e = "ENOENT" -> 2
      [] e = "EIO" -> 5
      [] e = "EBADF" -> 9
      [] e = "EACCES" -> 13
      [] e = "EEXIST" -> 17
      [] e = "ENOTDIR" -> 20
      [] e = "EISDIR" -> 21
      [] OTHER -> 22

\* the id FileScheme::open hands out
next_id(fls) == CHOOSE h \in Handles :
    fls[h] = None /\ \A g \in Handles : fls[g] = None => h <= g

\* FileScheme::open as Scheme::handle calls it: the resource is inserted
\* under a new id, which is the answer
handle_open(fls, r) ==
    IF r.st = "ok"
    THEN [st |-> "ok", fs |-> r.fs, a |-> next_id(fls),
          files |-> [fls EXCEPT ![next_id(fls)] = r.v]]
    ELSE IF r.st = "err"
    THEN [st |-> "err", fs |-> r.fs, a |-> 0 - Errno(r.v), files |-> fls]
    ELSE [st |-> r.st, fs |-> r.fs, a |-> 0, files |-> fls]

\* FileScheme::close
handle_close(fls, id, fs) ==
    IF fls[id] # None
    THEN [st |-> "ok", fs |-> fs, a |-> 0,
          files |-> [fls EXCEPT ![id] = None]]
    ELSE [st |-> "err", fs |-> fs, a |-> 0 - Errno("EBADF"), files |-> fls]

\* Scheme::handle: the call the packet names, its result, an id or 0 or
\* the negated number of the error, stored in packet.a
scheme_handle(p, fls, fs) ==
    IF p.call = "SYS_OPEN"
    THEN handle_open(fls, scheme_open(ServeScheme, <<NameA>>, ServeFlags(p),
                                      p.uid, 100, fs))
    ELSE handle_close(fls, p.fd, fs)

LibraryUnchanged ==
    UNCHANGED <<fat, disk, fs_info, info_disk, files, last, nops, bpb,
                fat_region>>

\* the served volume: its root directory is empty or holds the empty file "A"
InitServe ==
    /\ fat = [c \in 0..MaxCluster |->
                 IF c = 0 THEN FAT_EOC_MIN
                 ELSE IF c = 1 \/ c = root_cluster THEN FAT_EOC
                 ELSE 0]
    /\ \E first \in {ZeroCell, ImageSfn} :
        disk = [a \in 0..(DiskEnd - 1) |->
                  IF a < first_data_offset THEN MetaCell
                  ELSE IF a = first_data_offset THEN first
                  ELSE ZeroCell]
    /\ fs_info = [free_count |-> MaxCluster - RESERVED_CLUSTERS,
                  next_free |-> RESERVED_CLUSTERS]
    /\ info_disk = [free_count |-> MaxCluster - RESERVED_CLUSTERS,
                    next_free |-> RESERVED_CLUSTERS]
    /\ files = [h \in Handles |-> None]
    /\ last = [op |-> "mount", st |-> "ok"]
    /\ nops = 0
    /\ bpb = Fat32Bpb
    /\ fat_region = <<>>
    /\ server = [pc |-> "check", IS_UMT |-> 0, socket |-> <<>>,
                 packet |-> None, intr |-> FALSE, sent |-> 0, reads |-> 0,
                 handled |-> 0, writes |-> 0, result |-> "",
                 unmounted |-> FALSE]

\* if IS_UMT.load(Ordering::SeqCst) > 0 { break Ok(()) }
CheckUmt ==
    /\ server.pc = "check"
    /\ server' = IF server.IS_UMT > 0
                 THEN [server EXCEPT !.pc = "drop", !.result = "Ok"]
                 ELSE [server EXCEPT !.pc = "read"]
    /\ LibraryUnchanged

\* socket.read with nothing to read: the call blocks
ReadBlocks ==
    /\ server.pc = "read"
    /\ server.socket = <<>>
    /\ server' = [server EXCEPT !.pc = "blocked"]
    /\ LibraryUnchanged

\* socket.read returns a packet
ReadOk ==
    /\ server.pc \in {"read", "blocked"}
    /\ server.socket # <<>>
    /\ server' = [server EXCEPT !.pc = "handle",
                                !.packet = Head(server.socket),
                                !.socket = Tail(server.socket),
                                !.intr = FALSE,
                                !.reads = @ + 1]
    /\ LibraryUnchanged

\* socket.read returns Interrupted: continue
ReadInterrupted ==
    /\ server.pc = "blocked"
    /\ server.intr
    /\ server' = [server EXCEPT !.pc = "check", !.intr = FALSE]
    /\ LibraryUnchanged

\* socket.read returns another error: break Err(err)
ReadError ==
    /\ server.pc \in {"read", "blocked"}
    /\ server' = [server EXCEPT !.pc = "drop", !.result = "Err",
                                !.intr = FALSE]
    /\ LibraryUnchanged

\* scheme.handle(&mut packet)
HandleDone(p, r) ==
    /\ fat' = r.fs.fat
    /\ disk' = r.fs.disk
    /\ fs_info' = r.fs.fs_info
    /\ files' = r.files
    /\ last' = [op |-> "handle", st |-> r.st, packet |-> p]
    /\ nops' = nops + 1
    /\ server' =
           IF r.st = "hang" THEN [server EXCEPT !.pc = "hung"]
           ELSE IF r.st = "panic"
           THEN [server EXCEPT !.pc = "drop", !.result = "panic"]
           ELSE [server EXCEPT !.pc = "write",
                               !.packet = [p EXCEPT !.a = r.a],
                               !.handled = @ + 1]
    /\ UNCHANGED <<info_disk, bpb, fat_region>>

Handle ==
    /\ server.pc = "handle"
    /\ HandleDone(server.packet, scheme_handle(server.packet, files, FS))

\* socket.write(&packet) returns Ok
Respond ==
    /\ server.pc = "write"
    /\ server' = [server EXCEPT !.pc = "check", !.packet = None,
                                !.writes = @ + 1]
    /\ LibraryUnchanged

\* socket.write(&packet) returns an error: break Err(err)
RespondError ==
    /\ server.pc = "write"
    /\ server' = [server EXCEPT !.pc = "drop", !.result = "Err",
                                !.packet = None, !.writes = @ + 1]
    /\ LibraryUnchanged

\* mount returns: scheme is dropped, and with it the FileSystem, whose
\* drop calls unmount
DropDone(fs) ==
    /\ fat' = fs.fat
    /\ disk' = fs.disk
    /\ fs_info' = fs.fs_info
    /\ info_disk' = FsInfo_flush(fs_info)
    /\ files' = [h \in Handles |-> None]
    /\ last' = [op |-> "unmount", st |-> "ok"]
    /\ server' = [server EXCEPT !.pc = "exited", !.unmounted = TRUE]
    /\ UNCHANGED <<nops, bpb, fat_region>>

Drop ==
    /\ server.pc = "drop"
    /\ DropDone(set_hard_error_bit(set_clean_shut_bit(FS)))

\* a client sends a packet to the scheme
Arrive(p) ==
    /\ server.pc \notin {"exited", "hung"}
    /\ server.sent < MaxPackets
    /\ Len(server.socket) < SocketDepth
    /\ server' = [server EXCEPT !.socket = Append(@, p), !.sent = @ + 1]
    /\ LibraryUnchanged

\* unmount_handler: SIGTERM arrives; a read that is blocked is interrupted
Signal ==
    /\ server.pc \notin {"exited", "hung"}
    /\ server.IS_UMT = 0
    /\ server' = [server EXCEPT !.IS_UMT = 1,
                                !.intr = (server.pc = "blocked")]
    /\ LibraryUnchanged

\* the answers Scheme::handle stores in packet.a
Replies == Handles \cup {0} \cup {0 - Errno(e) : e \in ErrnoNames}

\* scheme.handle returns, as seen by the loop: the packet holds an answer.
\* Every Handle step that returns is such a step and no other step of the
\* server is.
HandleReturns ==
    /\ server.pc = "handle"
    /\ \E a \in Replies :
          server' = [server EXCEPT !.pc = "write",
                                  !.packet = [server.packet EXCEPT !.a = a],
                                  !.handled = @ + 1]

\* the steps of the server process
ServerStep ==
    \/ CheckUmt
    \/ ReadBlocks
    \/ ReadOk
    \/ ReadInterrupted
    \/ HandleReturns
    \/ Respond
    \/ Drop

NextServe ==
    \/ CheckUmt
    \/ ReadBlocks
    \/ ReadOk
    \/ ReadInterrupted
    \/ ReadError
    \/ Handle
    \/ Respond
    \/ RespondError
    \/ Drop
    \/ \E p \in ServePackets : Arrive(p)
    \/ Signal

SpecServe == InitServe /\ [][NextServe]_vars

\* the server process is scheduled as long as it can take a step; nothing
\* obliges a client to send a packet or the system to send a signal
SpecServeFair == SpecServe /\ WF_server(ServerStep)

\* every packet read is handled and answered by one write before the next
\* read
OneWritePerRead ==
    /\ server.pc \in {"check", "read", "blocked"} =>
           server.handled = server.reads /\ server.writes = server.reads
    /\ server.pc = "handle" =>
           server.handled + 1 = server.reads
               /\ server.writes + 1 = server.reads
    /\ server.pc = "write" =>
           server.handled = server.reads /\ server.writes + 1 = server.reads

\* an interrupted read leads back to the head of the loop, with no result
InterruptedReadContinues ==
    (server.pc = "blocked" /\ server.intr /\ server'.pc # "blocked"
        /\ server'.reads = server.reads /\ server'.result # "Err")
        => (server'.pc = "check" /\ server'.result = "")

\* the unmount that the drop runs comes after the last write
UnmountIsLast ==
    server.unmounted =>
        (server'.unmounted /\ server'.writes = server.writes
            /\ server'.reads = server.reads)

\* the loop has exited with Ok and the drop has run unmount
ExitedOk ==
    server.pc = "exited" /\ server.result = "Ok" /\ server.unmounted

\* C40: in the loop of mount every packet read is handled and answered by
\* exactly one write before the next read, an interrupted read does not
\* end the loop, the unmount that the drop runs comes after the last
\* response, and once IS_UMT is set while the loop runs the loop eventually
\* exits with Ok and unmount has run, unless a call on the socket fails
\* with an error other than Interrupted.
C40_ServerLoop ==
    /\ []OneWritePerRead
    /\ [][InterruptedReadContinues /\ UnmountIsLast]_vars
    /\ (server.IS_UMT > 0 /\ server.result = "")
           ~> (ExitedOk \/ server.result = "Err")
====
